---- MODULE Spec2Model ----
(***************************************************************************)
(* Model of the FivetranConnector reconciliation engine.                   *)
(*                                                                         *)
(* One FivetranConnector resource is tracked.  `srv` is the object as the  *)
(* API server stores it, `obj` is the copy the reconciler works on during  *)
(* one Reconcile invocation.  Every call that leaves the process (resource *)
(* store writes, secret store, provider API) is one step of the invocation *)
(* and its result is chosen by the environment.                            *)
(*                                                                         *)
(* Sources: controller.go (Reconcile, handleDeletion), utils.go,           *)
(* status_mgmt.go (handleError, setCondition), setup_tests.go, the schema  *)
(* reconciler (unnamed/part_002), the connector lifecycle manager          *)
(* (unnamed/part_003; handleExistingConnectorAdoption of part_002), the    *)
(* provider error type (errors.go), the schema comparator and the secret   *)
(* resolver (interfaces.go).                                               *)
(***************************************************************************)
EXTENDS Integers, Sequences, FiniteSets, TLC

VARIABLES srv, obj, rec, pc, loc, remote, log, outcome, env

vars == <<srv, obj, rec, pc, loc, remote, log, outcome, env>>

----
\* Bounds of the model.

\* Invocations of Reconcile at most.
MaxInvocations == 3
\* Condition updates in a row at most (SpecConditions).
MaxUpdates == 4
\* Largest status code of an SDK error (SpecErrors).
MaxStatus == 600
\* Tokens of a string value at most (SpecReference).
MaxTokens == 5

\* Invocations of one resource identity at most (SpecConcurrent).
MaxRuns == 1
\* External events (spec edits, markers, status loss, deletion) at most.
MaxEvents == 1
\* Faults of the environment (failed writes, provider errors on calls that
\* could succeed, secret store failures, failed client initialisation) at most.
MaxFaults == 1

----
\* Program constants.

\* handleError: ctrl.Result{RequeueAfter: 5 * time.Minute}
RequeueAfterMinutes == 5

conditionTypeConnectorReady == "ConnectorReady"
conditionTypeSetupTestReady == "SetupTestReady"
conditionTypeSchemaReady == "SchemaReady"

SchemaNotFoundError == "NotFound_SchemaConfig"

ErrFivetranClientNotInitialized == "ErrFivetranClientNotInitialized"
ErrVaultClientInitializationFailed == "ErrVaultClientInitializationFailed"
ErrSchemaMismatchAfterRetry == "ErrSchemaMismatchAfterRetry"
ErrSetupTestsFailed == "ErrSetupTestsFailed"
ErrConnectorValidationFailed == "ErrConnectorValidationFailed"

setupTestStatusPassed == "PASSED"
setupTestStatusSkipped == "SKIPPED"
setupTestStatusWarning == "WARNING"

----
\* Errors.  A Go error value is modelled by what errors.Is / errors.As can
\* find in its chain: the sentinel errors wrapped with %w, a *vault.VaultError
\* (with its Retryable flag), a *fivetran.APIError (with its StatusCode), and
\* the text that ends up in a condition message.

\* StatusCode of an error that is no *APIError.
NoApi == 0 - 1

PlainErr(text) ==
    [is |-> {}, vault |-> "none", api |-> NoApi, text |-> text, detail |-> {}]

\* WrapFivetranError: every provider call's error is an *APIError.
WrapFivetranError(status) ==
    [is |-> {}, vault |-> "none", api |-> status, text |-> "fivetran api error",
     detail |-> {}]

\* fmt.Errorf("...: %w", sentinel-or-err): the chain is kept.
WrapW(sentinel, e) == [e EXCEPT !.is = @ \cup {sentinel}]

\* fmt.Errorf("%w ... %v", sentinel, err): only the text of err is kept.
WrapV(sentinel, e) ==
    [is |-> {sentinel}, vault |-> "none", api |-> NoApi, text |-> e.text,
     detail |-> e.detail]

\* vault.VaultError constructors.
NewVaultError(retryable, text) ==
    [is |-> {}, vault |-> IF retryable THEN "retryable" ELSE "terminal",
     api |-> NoApi, text |-> text, detail |-> {}]

NewInvalidReferenceError == NewVaultError(FALSE, "invalid vault reference format")
NewKeyNotFoundError == NewVaultError(FALSE, "key not found in vault secret")
NewSecretNotFoundError == NewVaultError(FALSE, "secret not found at path")
NewSecretDataNilError == NewVaultError(FALSE, "secret data is nil")
NewVaultAPIError == NewVaultError(TRUE, "failed to read vault secret")

\* An IsRetryable that retries the server errors and 429 only.
APIErrorIsRetryable_serverErrorsOnly(statusCode) ==
    statusCode = 429 \/ statusCode >= 500

\* APIError.IsRetryable
APIErrorIsRetryable(statusCode) ==
    CASE statusCode = 429 -> TRUE
      [] statusCode \in {500, 502, 503, 504} -> TRUE
      [] OTHER -> statusCode < 400 \/ statusCode >= 500

\* VaultError.IsRetryable
VaultErrorIsRetryable(e) == e.vault = "retryable"

----
\* Strings that the code parses are sequences of tokens: "vault:" (the
\* prefix), "#", and name tokens.  The empty string is <<>>.

VaultPrefix == "vault:"

HasVaultPrefix(value) == Len(value) > 0 /\ value[1] = VaultPrefix

\* strings.TrimPrefix(value, "vault:")
TrimVaultPrefix(value) == IF HasVaultPrefix(value) THEN Tail(value) ELSE value

\* Position of the first "#" in ref, 0 if there is none.
FirstHash(ref) ==
    IF \E i \in 1..Len(ref) : ref[i] = "#"
    THEN CHOOSE i \in 1..Len(ref) : ref[i] = "#" /\ \A j \in 1..(i - 1) : ref[j] # "#"
    ELSE 0

\* parseVaultReference: strings.SplitN(ref, "#", 2); both parts non-empty.
parseVaultReference(value) ==
    LET ref == TrimVaultPrefix(value)
        h == FirstHash(ref)
    IN IF h = 0 \/ h = 1 \/ h = Len(ref)
       THEN [ok |-> FALSE, path |-> <<>>, key |-> <<>>]
       ELSE [ok |-> TRUE, path |-> SubSeq(ref, 1, h - 1),
             key |-> SubSeq(ref, h + 1, Len(ref))]

----
\* Secret store.  A store state maps a path to what KVv2.Get answers for it:
\*   "transport"  the call returns an error
\*   "nil"        a secret without data        (extractSecretData: ErrSecretDataNil)
\*   "nodata"     no "data" map in the secret  (extractSecretData: invalid KV v2 format)
\*   "data"       a secret whose data holds the keys StoreKeys
StoreAnswers == {"transport", "nil", "nodata", "data"}
StoreKeys == {<<"k">>, <<"u">>}

\* A getPathData whose errors are all retryable.
getPathData_allRetryable(answer) ==
    IF answer = "data" THEN [ok |-> TRUE, err |-> PlainErr("")]
    ELSE [ok |-> FALSE, err |-> NewVaultAPIError]

\* getPathData, for a path not in the cache: the error, or "ok".
getPathData(answer) ==
    CASE answer = "transport" -> [ok |-> FALSE, err |-> NewVaultAPIError]
      [] answer = "nil" -> [ok |-> FALSE, err |-> NewSecretDataNilError]
      [] answer = "nodata" -> [ok |-> FALSE, err |-> NewSecretNotFoundError]
      [] OTHER -> [ok |-> TRUE, err |-> PlainErr("")]

\* resolveString on one string value with the store answering `answer` for its
\* path: [ok, err, fetched] where fetched tells whether the store was called.
resolveString(value, answer, cached) ==
    IF ~HasVaultPrefix(value)
    THEN [ok |-> TRUE, err |-> PlainErr(""), fetched |-> FALSE]
    ELSE LET p == parseVaultReference(value)
         IN IF ~p.ok
            THEN [ok |-> FALSE, err |-> NewInvalidReferenceError, fetched |-> FALSE]
            ELSE LET d == IF cached THEN [ok |-> TRUE, err |-> PlainErr("")]
                          ELSE getPathData(answer)
                 IN IF ~d.ok
                    THEN [ok |-> FALSE, err |-> d.err, fetched |-> ~cached]
                    ELSE IF p.key \notin StoreKeys
                         THEN [ok |-> FALSE, err |-> NewKeyNotFoundError,
                               fetched |-> ~cached]
                         ELSE [ok |-> TRUE, err |-> PlainErr(""), fetched |-> ~cached]

\* Documents (Spec.Connector.Config, Spec.Connector.Auth) are mappings from
\* keys to string values.  A nil document is the empty mapping with
\* present = FALSE.
NilDoc == [present |-> FALSE, fields |-> <<>>]
Doc(fields) == [present |-> TRUE, fields |-> fields]

Field(doc, key) == IF key \in DOMAIN doc.fields THEN doc.fields[key] ELSE <<>>

\* vault.ResolveSecrets on one document: the set of results the call can have
\* when the store answers `answer` for the path.  A mapping is walked in no
\* fixed order and the first failure ends the walk, so with several failing
\* values any of their errors can be the one returned.  The per-call cache
\* makes every value after the first fetched one use the cached data.
ResolveSecrets(doc, answer) ==
    LET failing == {k \in DOMAIN doc.fields :
                       ~resolveString(doc.fields[k], answer, FALSE).ok}
    IN IF ~doc.present \/ failing = {}
       THEN {[ok |-> TRUE, err |-> PlainErr("")]}
       ELSE {[ok |-> FALSE, err |-> resolveString(doc.fields[k], answer, FALSE).err] :
                k \in failing}

\* Whether ResolveSecrets calls the store at all for the document.
FetchesStore(doc) ==
    \E k \in DOMAIN doc.fields :
        HasVaultPrefix(doc.fields[k]) /\ parseVaultReference(doc.fields[k]).ok

\* resolveSecrets (controller): config, then auth; the errors are joined, and
\* errors.As / errors.Is find the first one in that order.
resolveSecrets(config, auth, answer) ==
    {IF c.ok THEN a ELSE [ok |-> FALSE, err |-> c.err] :
        c \in ResolveSecrets(config, answer), a \in ResolveSecrets(auth, answer)}

----
\* Declared schema configuration (Spec.ConnectorSchemas) and the provider's
\* live schema (ConnectionSchemaDetailsResponse).  Mappings are functions;
\* a nil *bool / *string of the live schema is "nil".

NilSchemaConfig == [present |-> FALSE, handling |-> "", schemas |-> <<>>]

\* hasSchemaConfig
hasSchemaConfig(o) ==
    /\ o.spec.schemas.present
    /\ (DOMAIN o.spec.schemas.schemas # {} \/ o.spec.schemas.handling # "")

BoolText(b) == IF b THEN "true" ELSE "false"

\* compareTablesWithFivetran: the set of table issues.
compareTablesWithFivetran(fivetranTables, crTables) ==
    UNION {
        IF t \notin DOMAIN fivetranTables
        THEN {<<"table", t, "not found in source">>}
        ELSE ( IF fivetranTables[t].enabled # "nil"
                  /\ fivetranTables[t].enabled # BoolText(crTables[t].enabled)
               THEN {<<"table", t, "enabled state mismatch", BoolText(crTables[t].enabled),
                       fivetranTables[t].enabled>>}
               ELSE {} )
             \cup
             ( IF crTables[t].syncMode # "" /\ fivetranTables[t].syncMode # crTables[t].syncMode
               THEN {<<"table", t, "sync mode mismatch", crTables[t].syncMode,
                       fivetranTables[t].syncMode>>}
               ELSE {} )
        : t \in DOMAIN crTables }

\* CompareSchemaWithCR: [matches, report]; the report is the set of
\* discrepancies.
CompareSchemaWithCR(fivetranSchema, crSchema) ==
    LET handling ==
            IF crSchema.handling # "" /\ fivetranSchema.handling # crSchema.handling
            THEN {<<"schema change handling", crSchema.handling, fivetranSchema.handling>>}
            ELSE {}
        perSchema(n) ==
            IF n \notin DOMAIN fivetranSchema.schemas
            THEN {<<"missing schema", n>>}
            ELSE ( IF fivetranSchema.schemas[n].enabled # "nil"
                      /\ fivetranSchema.schemas[n].enabled # BoolText(crSchema.schemas[n].enabled)
                   THEN {<<"schema", n, "enabled state mismatch",
                           BoolText(crSchema.schemas[n].enabled),
                           fivetranSchema.schemas[n].enabled>>}
                   ELSE {} )
                 \cup compareTablesWithFivetran(fivetranSchema.schemas[n].tables,
                                                crSchema.schemas[n].tables)
        report == IF crSchema.present
                  THEN handling \cup UNION {perSchema(n) : n \in DOMAIN crSchema.schemas}
                  ELSE {}
    IN [matches |-> report = {}, report |-> report]

----
\* The resource.

\* Identities: "ext" exists at the provider before the resource does; the
\* provider names the connectors it creates "new1", "new2", ...
NewID(n) ==
    CASE n = 0 -> "new1" [] n = 1 -> "new2" [] n = 2 -> "new3" [] n = 3 -> "new4"
      [] OTHER -> "new5"

ConfigGood == Doc([schema_prefix |-> <<"pfx">>, password |-> <<"vault:", "p", "#", "k">>])
ConfigEdited == Doc([schema_prefix |-> <<"pfx">>, host |-> <<"db2">>,
                     password |-> <<"vault:", "p", "#", "k">>])
ConfigMissingKey == Doc([schema_prefix |-> <<"pfx">>, password |-> <<"vault:", "p", "#", "z">>])
ConfigMalformed == Doc([schema_prefix |-> <<"pfx">>, password |-> <<"vault:", "p">>])

ConnectorSpec(config, auth, paused, runSetupTests, scheduleType) ==
    [service |-> "s1", groupID |-> "g1", config |-> config, auth |-> auth,
     paused |-> paused, runSetupTests |-> runSetupTests, scheduleType |-> scheduleType]

\* The connector specifications the resource owner declares.
ConnectorSpecs ==
    { ConnectorSpec(ConfigGood, NilDoc, FALSE, "nil", "manual"),
      ConnectorSpec(ConfigEdited, NilDoc, TRUE, "false", ""),
      ConnectorSpec(ConfigGood, ConfigMissingKey, FALSE, "nil", "auto"),
      ConnectorSpec(ConfigMalformed, NilDoc, FALSE, "nil", "auto") }

DeclaredSchema ==
    [present |-> TRUE, handling |-> "BLOCK_ALL",
     schemas |-> [sA |-> [enabled |-> TRUE,
                          tables |-> [t1 |-> [enabled |-> TRUE, syncMode |-> "SOFT_DELETE"]]]]]

\* The schema configurations the resource owner declares.
SchemaConfigs ==
    { NilSchemaConfig,
      [present |-> TRUE, handling |-> "", schemas |-> <<>>],
      DeclaredSchema }

\* The live schemas the provider answers with.
LiveSchemas ==
    { [handling |-> "BLOCK_ALL",
       schemas |-> [sA |-> [enabled |-> "true",
                            tables |-> [t1 |-> [enabled |-> "nil", syncMode |-> "SOFT_DELETE"]]]]],
      [handling |-> "ALLOW_ALL",
       schemas |-> [sA |-> [enabled |-> "true", tables |-> <<>>]]] }

\* The remote connectors an adoption request can name.
ExistingConnector(service, groupID, schema) ==
    [service |-> service, groupID |-> groupID, schema |-> schema, paused |-> TRUE,
     scheduleType |-> "auto", config |-> NilDoc, auth |-> NilDoc]

ExistingConnectors ==
    { ExistingConnector("s1", "g1", <<"pfx">>),
      ExistingConnector("s2", "g1", <<"pfx">>),
      ExistingConnector("s1", "g2", <<"pfx">>),
      ExistingConnector("s1", "g1", <<"other">>) }

NoHash == <<>>

\* calculateConnectorHash: md5 of the JSON of Spec.Connector.
calculateConnectorHash(o) == <<"md5", o.spec.connector>>

\* calculateSchemaHash: "" for a nil ConnectorSchemas, else md5 of its JSON.
calculateSchemaHash(o) ==
    IF ~o.spec.schemas.present THEN NoHash ELSE <<"md5", o.spec.schemas>>

NewResource(connector, schemas, adopt) ==
    [exists |-> TRUE, deleting |-> FALSE, finalizer |-> FALSE, forceLabel |-> FALSE,
     adoptAnn |-> adopt, idAnn |-> "", connHash |-> NoHash, schemaHash |-> NoHash,
     spec |-> [connector |-> connector, schemas |-> schemas],
     status |-> [connectorID |-> "", conditions |-> <<>>]]

\* A setCondition that always appends.
SetCondition_appends(o, conditionType, status, reason, message) ==
    [o EXCEPT !.status.conditions =
        Append(@, [type |-> conditionType, status |-> status, reason |-> reason,
                   message |-> message])]

\* setCondition, on the in-memory object: replace the record of the type in
\* place, or append.
SetCondition(o, conditionType, status, reason, message) ==
    LET c == [type |-> conditionType, status |-> status, reason |-> reason,
              message |-> message]
        cs == o.status.conditions
    IN IF \E i \in 1..Len(cs) : cs[i].type = conditionType
       THEN LET i == CHOOSE j \in 1..Len(cs) :
                        cs[j].type = conditionType
                        /\ \A k \in 1..(j - 1) : cs[k].type # conditionType
            IN [o EXCEPT !.status.conditions = [cs EXCEPT ![i] = c]]
       ELSE [o EXCEPT !.status.conditions = Append(cs, c)]

\* hasFailedConditions
hasFailedConditions(o) ==
    \E i \in 1..Len(o.status.conditions) : o.status.conditions[i].status = "False"

\* A comparison that always reports a change.
hasConnectorHashChanged_always(o) ==
    TRUE

\* hasConnectorHashChanged
hasConnectorHashChanged(o) == calculateConnectorHash(o) # o.connHash

\* hasSchemaHashChanged
hasSchemaHashChanged(o) ==
    IF ~hasSchemaConfig(o) THEN FALSE
    ELSE IF o.status.connectorID = "" THEN TRUE
    ELSE calculateSchemaHash(o) # o.schemaHash

\* A decision that looks at the fingerprints only.
determineReconciliationNeeds_hashOnly(o, forceReconcile) ==
    [connector |-> hasConnectorHashChanged(o), schema |-> hasSchemaHashChanged(o)]

\* determineReconciliationNeeds: [connector, schema]
determineReconciliationNeeds(o, forceReconcile) ==
    IF forceReconcile \/ hasFailedConditions(o)
    THEN [connector |-> TRUE, schema |-> hasSchemaConfig(o)]
    ELSE [connector |-> hasConnectorHashChanged(o), schema |-> hasSchemaHashChanged(o)]

\* The resource store.  r.Update writes metadata (and spec) and leaves the
\* status as stored; r.Status().Update writes the status only.  A successful
\* write returns the stored object into the caller's copy; a failed one leaves
\* the store and the caller's copy as they were.  A resource under deletion
\* goes away with its last finalizer.
StoredAfterUpdate(o, s) ==
    LET n == [o EXCEPT !.status = s.status]
    IN IF n.deleting /\ ~n.finalizer THEN [n EXCEPT !.exists = FALSE] ELSE n

StoredAfterStatusUpdate(o, s) == [s EXCEPT !.status = o.status]

----
\* One invocation of Reconcile.  pc is the call the invocation is about to
\* make ("idle": no invocation runs); loc holds its local variables.

LocInit ==
    [forceReconcile |-> FALSE, reconcileConnector |-> FALSE, reconcileSchema |-> FALSE,
     connectorID |-> "", path |-> "", retried |-> FALSE, warnings |-> FALSE,
     err |-> PlainErr(""), condType |-> "", reason |-> ""]

\* ctrl.Result{}
NoRequeue == [requeue |-> FALSE, requeueAfter |-> 0]
\* ctrl.Result{RequeueAfter: 5 * time.Minute}
RequeueAfterDelay == [requeue |-> FALSE, requeueAfter |-> RequeueAfterMinutes]
\* ctrl.Result{Requeue: true}
RequeueNow == [requeue |-> TRUE, requeueAfter |-> 0]

\* What Reconcile returned: the ctrl.Result, whether the error is non-nil,
\* and the return statement taken.
Outcome(result, err, via) == [result |-> result, err |-> err, via |-> via]

\* Continuations: where the invocation goes next.
Goto(p, l) == [pc |-> p, loc |-> l, out |-> <<>>]
Return(result, err, via) ==
    [pc |-> "idle", loc |-> LocInit, out |-> <<Outcome(result, err, via)>>]
\* A failure that is always reported on ConnectorReady.
Fail_onConnectorReady(l, conditionType, reason, e) ==
    Goto("handleError", [l EXCEPT !.err = e, !.condType = conditionTypeConnectorReady,
                                  !.reason = reason])

\* return r.handleError(ctx, connector, conditionType, reason, err)
Fail(l, conditionType, reason, e) ==
    Goto("handleError", [l EXCEPT !.err = e, !.condType = conditionType, !.reason = reason])

ContinueFrom(k, current) ==
    /\ pc' = k.pc
    /\ loc' = k.loc
    /\ outcome' = IF k.out = <<>> THEN current ELSE k.out[1]

Continue(k) == ContinueFrom(k, outcome)

\* A call that leaves the process, and whether it succeeded.  For a write
\* of a condition, a is the condition type and b its status; for the writes
\* of handleError, id is the reason handleError was given.
Call(op, id, a, b, ok) ==
    [op |-> op, id |-> id, a |-> a, b |-> b, ok |-> ok, code |-> 0]
\* A call of the provider API, and the status code it was answered with.
ProviderCall(op, id, a, status) ==
    [op |-> op, id |-> id, a |-> a, b |-> "", ok |-> status \in 200..299, code |-> status]
Logged(c) == log' = Append(log, c)

\* The environment makes a step of the invocation fail (or not).
Fault(isFault) ==
    /\ isFault => env.faults < MaxFaults
    /\ env' = IF isFault THEN [env EXCEPT !.faults = @ + 1] ELSE env

\* r.Update(ctx, o): the environment decides whether the write succeeds.
Update(o, ok) ==
    /\ srv' = IF ok THEN StoredAfterUpdate(o, srv) ELSE srv
    /\ obj' = IF ok THEN StoredAfterUpdate(o, srv) ELSE o

\* r.Status().Update(ctx, o)
StatusUpdate(o, ok) ==
    /\ srv' = IF ok THEN StoredAfterStatusUpdate(o, srv) ELSE srv
    /\ obj' = IF ok THEN StoredAfterStatusUpdate(o, srv) ELSE o

\* The provider answers a call with one of these status codes; the 2xx
\* ones are the calls that succeed.
FailStatuses == {404, 503}
Answers == {200} \cup FailStatuses
Succeeded(a) == a \in 200..299

\* Reconcile, from the early return on: resolve the secrets.
Determine(o, l) ==
    LET n == determineReconciliationNeeds(o, l.forceReconcile)
    IN IF ~n.connector /\ ~n.schema
       THEN Return(NoRequeue, FALSE, "noop")
       ELSE Goto("resolveSecrets",
                 [l EXCEPT !.reconcileConnector = n.connector, !.reconcileSchema = n.schema])

\* Reconcile after ensureFinalizer: the force flag, then
\* handleExistingConnectorAdoptionIfNeeded.
AfterFinalizer(o, l) ==
    LET l1 == [l EXCEPT !.forceReconcile = o.forceLabel]
    IN IF o.status.connectorID = "" /\ o.adoptAnn # ""
       THEN Goto("handleExistingConnectorAdoption", l1)
       ELSE Determine(o, l1)

\* Reconcile after the clients are there: deletion, else ensureFinalizer.
AfterClients(o, l) ==
    IF o.deleting
    THEN IF ~o.finalizer THEN Return(NoRequeue, FALSE, "deleted")
         ELSE IF o.status.connectorID # "" THEN Goto("DeleteConnection", l)
         ELSE Goto("RemoveFinalizer", l)
    ELSE IF ~o.finalizer THEN Goto("ensureFinalizer", l)
    ELSE AfterFinalizer(o, l)

\* The events, as the log names them.
EventOps == {"EditConnector", "EditSchemas", "AddForceLabel", "LoseStatus", "RequestDelete"}

\* No event has happened since the last invocation began.
Untouched == \A i \in 1..Len(log) : log[i].op \notin EventOps

\* Reconcile: r.Get, then the FivetranClient check.  env.start keeps the
\* resource as the invocation found it, env.prev how the invocation before
\* ended when the resource was not touched since.
Reconcile ==
    /\ pc = "idle"
    /\ env.invocations < MaxInvocations
    /\ env' = [env EXCEPT !.invocations = @ + 1, !.start = srv,
                           !.prev = IF Untouched THEN outcome.via ELSE "none"]
    /\ log' = <<>>
    /\ UNCHANGED <<srv, rec, remote>>
    /\ IF ~srv.exists
       THEN /\ Continue(Return(NoRequeue, FALSE, "notfound"))
            /\ obj' = obj
       ELSE /\ obj' = srv
            /\ ContinueFrom(IF rec.fivetranClientNil
                            THEN Fail(LocInit, conditionTypeConnectorReady,
                                      "FivetranClientNotInitialized",
                                      WrapW(ErrFivetranClientNotInitialized,
                                            PlainErr("fivetran client is not initialized")))
                            ELSE Goto("vaultClient", LocInit),
                            Outcome(NoRequeue, FALSE, "running"))

\* Reconcile: the vault client is initialised when it is nil or its token
\* is about to expire.
InitializeVaultClient ==
    /\ pc = "vaultClient"
    /\ UNCHANGED <<srv, obj, remote, log>>
    /\ \E tokenValid \in BOOLEAN, initialized \in BOOLEAN :
          /\ Fault(~(rec.vaultClient /\ tokenValid) /\ ~initialized)
          /\ IF rec.vaultClient /\ tokenValid
             THEN /\ rec' = rec
                  /\ Continue(AfterClients(obj, loc))
             ELSE IF initialized
             THEN /\ rec' = [rec EXCEPT !.vaultClient = TRUE]
                  /\ Continue(AfterClients(obj, loc))
             ELSE /\ rec' = rec
                  /\ Continue(Fail(loc, conditionTypeConnectorReady,
                                    "VaultClientInitializationFailed",
                                    WrapW(ErrVaultClientInitializationFailed,
                                          PlainErr("failed to initialize vault client"))))

\* handleError: the ctrl.Result it returns for the error.
HandleErrorResult(e) ==
    IF ErrSchemaMismatchAfterRetry \in e.is THEN NoRequeue
    ELSE IF ErrSetupTestsFailed \in e.is THEN NoRequeue
    ELSE IF ErrConnectorValidationFailed \in e.is THEN NoRequeue
    ELSE IF e.vault # "none"
         THEN IF VaultErrorIsRetryable(e) THEN RequeueAfterDelay ELSE NoRequeue
    ELSE IF e.api # NoApi
         THEN IF APIErrorIsRetryable(e.api) THEN RequeueAfterDelay ELSE NoRequeue
    ELSE NoRequeue

\* handleError: whether it returns the error itself (the default branch).
HandleErrorReturnsErr(e) ==
    /\ e.is \cap {ErrSchemaMismatchAfterRetry, ErrSetupTestsFailed,
                  ErrConnectorValidationFailed} = {}
    /\ e.vault = "none"
    /\ e.api = NoApi

\* A condition message that leaves the details of the error out.
Message_withoutDetail(e) ==
    [text |-> e.text, detail |-> {}]

\* err.Error(): the message of the condition.
Message(e) ==
    [text |-> e.text, detail |-> e.detail]

\* handleError: the status write of the failure condition; for a setup test
\* failure, first the write of ConnectorReady = True.
handleError ==
    /\ pc = "handleError"
    /\ UNCHANGED <<rec, remote>>
    /\ \E ok \in BOOLEAN :
          /\ Fault(~ok)
          /\ IF ErrSchemaMismatchAfterRetry \notin loc.err.is /\ ErrSetupTestsFailed \in loc.err.is
             THEN /\ StatusUpdate(SetCondition(obj, conditionTypeConnectorReady, "True",
                                                "ReconciledSuccessfully",
                                                [text |-> "Connector is ready", detail |-> {}]), ok)
                  /\ Logged(Call("Status().Update", loc.reason, conditionTypeConnectorReady, "True", ok))
                  /\ Continue(IF ok THEN Goto("handleErrorSetupTests", loc)
                                     ELSE Return(NoRequeue, TRUE, "handleError"))
             ELSE /\ StatusUpdate(SetCondition(obj, loc.condType, "False", loc.reason,
                                                Message(loc.err)), ok)
                  /\ Logged(Call("Status().Update", loc.reason, loc.condType, "False", ok))
                  /\ Continue(Return(HandleErrorResult(loc.err),
                                      ~ok \/ HandleErrorReturnsErr(loc.err), "handleError"))

\* A handleError that asks for a requeue after a setup test failure.
handleErrorSetupTests_requeues ==
    /\ pc = "handleErrorSetupTests"
    /\ UNCHANGED <<rec, remote>>
    /\ \E ok \in BOOLEAN :
          /\ Fault(~ok)
          /\ StatusUpdate(SetCondition(obj, loc.condType, "False", loc.reason,
                                        Message(loc.err)), ok)
          /\ Logged(Call("Status().Update", loc.reason, loc.condType, "False", ok))
          /\ Continue(Return(RequeueAfterDelay, ~ok, "handleError"))

\* handleError, setup test failure: the write of the failing condition.
handleErrorSetupTests ==
    /\ pc = "handleErrorSetupTests"
    /\ UNCHANGED <<rec, remote>>
    /\ \E ok \in BOOLEAN :
          /\ Fault(~ok)
          /\ StatusUpdate(SetCondition(obj, loc.condType, "False", loc.reason,
                                        Message(loc.err)), ok)
          /\ Logged(Call("Status().Update", loc.reason, loc.condType, "False", ok))
          /\ Continue(Return(NoRequeue, ~ok, "handleError"))

----
\* The provider.  remote.conns maps the identities of the connectors that
\* exist to their state, remote.created counts the creates it accepted.

\* A call on an identity the provider does not know can only fail.
AnswersFor(id) == IF id \in DOMAIN remote.conns THEN Answers ELSE FailStatuses

\* The data-schema name the adoption expects (and the provider realises):
\* schema_prefix, else schema with an optional ".table" / ".table_group_name".
ExpectedSchema(config) ==
    IF Field(config, "schema_prefix") # <<>> THEN Field(config, "schema_prefix")
    ELSE IF Field(config, "schema") # <<>>
    THEN IF Field(config, "table_group_name") # <<>>
         THEN Field(config, "schema") \o <<".">> \o Field(config, "table_group_name")
         ELSE IF Field(config, "table") # <<>>
         THEN Field(config, "schema") \o <<".">> \o Field(config, "table")
         ELSE Field(config, "schema")
    ELSE <<>>

\* The validation of handleConnectorFromAnnotation and of
\* handleExistingConnectorAdoption: "" or the mismatch found.
ValidateExisting(o, existing) ==
    IF o.spec.connector.service # existing.service THEN "service mismatch"
    ELSE IF o.spec.connector.groupID # existing.groupID THEN "group_id mismatch"
    ELSE IF /\ o.spec.connector.config.present
            /\ ExpectedSchema(o.spec.connector.config) # <<>>
            /\ ExpectedSchema(o.spec.connector.config) # existing.schema
    THEN "schema mismatch"
    ELSE ""

\* The document ResolveSecrets leaves behind when it succeeds: every vault
\* reference is replaced by the value of its key.
Resolved(doc) ==
    [doc EXCEPT !.fields =
        [k \in DOMAIN doc.fields |->
            IF HasVaultPrefix(doc.fields[k])
            THEN <<"secret">> \o parseVaultReference(doc.fields[k]).key
            ELSE doc.fields[k]]]

\* A create call that carries the declared paused value.
CreatedConnector_declaredPaused(c) ==
    [service |-> c.service, groupID |-> c.groupID, schema |-> ExpectedSchema(c.config),
     paused |-> c.paused, scheduleType |-> "auto", config |-> Resolved(c.config),
     auth |-> Resolved(c.auth)]

\* toFivetranConnector + CreateConnection: the connector the provider creates.
\* createConnector forces paused; the create call carries no schedule type.
CreatedConnector(c) ==
    [service |-> c.service, groupID |-> c.groupID, schema |-> ExpectedSchema(c.config),
     paused |-> TRUE, scheduleType |-> "auto", config |-> Resolved(c.config),
     auth |-> Resolved(c.auth)]

\* An update that flips the paused flag of the remote connector.
UpdatedConnector_flipsPaused(old, c) ==
    [old EXCEPT !.paused = ~old.paused,
                !.scheduleType = IF c.scheduleType # "" THEN c.scheduleType ELSE @,
                !.config = IF c.config.present THEN Resolved(c.config) ELSE @,
                !.auth = IF c.auth.present THEN Resolved(c.auth) ELSE @]

\* toFivetranConnector + UpdateConnection: the connector after the update.
\* Only what the request carries is changed.
UpdatedConnector(old, c) ==
    [old EXCEPT !.paused = c.paused,
                !.scheduleType = IF c.scheduleType # "" THEN c.scheduleType ELSE @,
                !.config = IF c.config.present THEN Resolved(c.config) ELSE @,
                !.auth = IF c.auth.present THEN Resolved(c.auth) ELSE @]

\* A DeleteConnection whose error is ignored.
DeleteConnection_ignoresError ==
    /\ pc = "DeleteConnection"
    /\ UNCHANGED <<srv, obj, rec, remote>>
    /\ \E a \in AnswersFor(obj.status.connectorID) :
          /\ Fault(~Succeeded(a) /\ obj.status.connectorID \in DOMAIN remote.conns)
          /\ Logged(ProviderCall("DeleteConnection", obj.status.connectorID, "", a))
          /\ Continue(Goto("RemoveFinalizer", loc))

\* handleDeletion: DeleteConnection for the identity in the status.
DeleteConnection ==
    /\ pc = "DeleteConnection"
    /\ UNCHANGED <<srv, obj, rec>>
    /\ \E a \in AnswersFor(obj.status.connectorID) :
          /\ Fault(~Succeeded(a) /\ obj.status.connectorID \in DOMAIN remote.conns)
          /\ Logged(ProviderCall("DeleteConnection", obj.status.connectorID, "", a))
          /\ IF Succeeded(a)
             THEN /\ remote' = [remote EXCEPT !.conns =
                                   [i \in DOMAIN remote.conns \ {obj.status.connectorID}
                                       |-> remote.conns[i]]]
                  /\ Continue(Goto("RemoveFinalizer", loc))
             ELSE /\ remote' = remote
                  /\ Continue(Fail(loc, conditionTypeConnectorReady, "DeletionFailed",
                                    WrapFivetranError(a)))

\* handleDeletion: RemoveFinalizer and r.Update.
RemoveFinalizer ==
    /\ pc = "RemoveFinalizer"
    /\ UNCHANGED <<rec, remote>>
    /\ \E ok \in BOOLEAN :
          /\ Fault(~ok)
          /\ Logged(Call("Update", "", "finalizer", "removed", ok))
          /\ Update([obj EXCEPT !.finalizer = FALSE], ok)
          /\ Continue(IF ok THEN Return(NoRequeue, FALSE, "deleted")
                       ELSE Fail(loc, conditionTypeConnectorReady, "DeletionFailed",
                                 PlainErr("update failed")))

\* ensureFinalizer: AddFinalizer and r.Update.
ensureFinalizer ==
    /\ pc = "ensureFinalizer"
    /\ UNCHANGED <<rec, remote>>
    /\ \E ok \in BOOLEAN :
          /\ Fault(~ok)
          /\ Logged(Call("Update", "", "finalizer", "added", ok))
          /\ Update([obj EXCEPT !.finalizer = TRUE], ok)
          /\ Continue(IF ok THEN AfterFinalizer(StoredAfterUpdate([obj EXCEPT !.finalizer = TRUE], srv), loc)
                       ELSE Fail(loc, conditionTypeConnectorReady, "FinalizerUpdateFailed",
                                 PlainErr("update failed")))

\* handleExistingConnectorAdoption: GetConnection for the adoption
\* annotation and the validation of what it returns.
handleExistingConnectorAdoption ==
    /\ pc = "handleExistingConnectorAdoption"
    /\ UNCHANGED <<srv, obj, rec, remote>>
    /\ \E a \in AnswersFor(obj.adoptAnn) :
          /\ Fault(~Succeeded(a) /\ obj.adoptAnn \in DOMAIN remote.conns)
          /\ Logged(ProviderCall("GetConnection", obj.adoptAnn, "", a))
          /\ IF ~Succeeded(a)
             THEN Continue(Fail(loc, conditionTypeConnectorReady, "ExistingConnectorAdoptionFailed",
                                WrapFivetranError(a)))
             ELSE IF ValidateExisting(obj, remote.conns[obj.adoptAnn]) # ""
             THEN Continue(Fail(loc, conditionTypeConnectorReady, "ExistingConnectorAdoptionFailed",
                                PlainErr(ValidateExisting(obj, remote.conns[obj.adoptAnn]))))
             ELSE Continue(Goto("updateConnectorIDStatus",
                                [loc EXCEPT !.connectorID = obj.adoptAnn]))

\* updateConnectorIDStatus: the identity goes to the status; Reconcile then
\* returns ctrl.Result{Requeue: true}.
updateConnectorIDStatus ==
    /\ pc = "updateConnectorIDStatus"
    /\ UNCHANGED <<rec, remote>>
    /\ \E ok \in BOOLEAN :
          /\ Fault(~ok)
          /\ Logged(Call("Status().Update", loc.connectorID, "connectorID", "", ok))
          /\ StatusUpdate([obj EXCEPT !.status.connectorID = loc.connectorID], ok)
          /\ Continue(IF ok THEN Return(RequeueNow, FALSE, "adopted")
                       ELSE Fail(loc, conditionTypeConnectorReady,
                                 "ExistingConnectorAdoptionFailed",
                                 PlainErr("status update failed")))

----
\* Reconcile, from the secrets on.

\* A cleanup that leaves the force-reconcile label in place.
Cleanup_keepsForceLabel(o, l) ==
    IF o.adoptAnn # "" THEN Goto("removeAdoptAnnotation", l)
    ELSE Return(NoRequeue, FALSE, "completed")

\* Reconcile: clean up the markers, then return.
Cleanup(o, l) ==
    IF o.forceLabel THEN Goto("removeForceLabel", l)
    ELSE IF o.adoptAnn # "" THEN Goto("removeAdoptAnnotation", l)
    ELSE Return(NoRequeue, FALSE, "completed")

\* Reconcile: the follow-up update when the connector was reconciled.
FollowUp(o, l) ==
    IF l.reconcileConnector THEN Goto("updateConnectorAgain", l) ELSE Cleanup(o, l)

\* Reconcile: reconcileSchema, or SchemaReady = True (Skipped).
SchemaStep(o, l) ==
    IF l.reconcileSchema /\ hasSchemaConfig(o)
    THEN Goto("GetSchemaDetails", [l EXCEPT !.retried = FALSE])
    ELSE Goto("setSchemaSkipped", l)

\* A dispatch that does not look at the backup annotation.
reconcileConnector_ignoresMarker(o, l) ==
    IF o.status.connectorID # ""
    THEN Goto("updateConnector", [l EXCEPT !.connectorID = o.status.connectorID,
                                           !.path = "status"])
    ELSE Goto("createConnector", [l EXCEPT !.path = "create"])

\* reconcileConnector: the dispatch on where an identity is found.
reconcileConnector(o, l) ==
    IF o.status.connectorID # ""
    THEN Goto("updateConnector", [l EXCEPT !.connectorID = o.status.connectorID,
                                           !.path = "status"])
    ELSE IF o.idAnn # ""
    THEN Goto("handleConnectorFromAnnotation", [l EXCEPT !.path = "annotation"])
    ELSE Goto("createConnector", [l EXCEPT !.path = "create"])

\* Reconcile after resolveSecrets: connectorID from the status, then
\* reconcileConnector if needed, else the schema.
AfterSecrets(o, l) ==
    LET l1 == [l EXCEPT !.connectorID = o.status.connectorID]
    IN IF l.reconcileConnector THEN reconcileConnector(o, l1) ELSE SchemaStep(o, l1)

\* The secret-store calls resolveSecrets makes: one per document that holds
\* a well-formed reference.
SecretFetches(c, answer) ==
    (IF c.config.present /\ FetchesStore(c.config)
     THEN <<Call("KVv2.Get", "", "config", answer, answer # "transport")>> ELSE <<>>)
    \o (IF c.auth.present /\ FetchesStore(c.auth)
        THEN <<Call("KVv2.Get", "", "auth", answer, answer # "transport")>> ELSE <<>>)

\* Reconcile: resolveSecrets.
ResolveSecretsStep ==
    /\ pc = "resolveSecrets"
    /\ UNCHANGED <<srv, obj, rec, remote>>
    /\ \E answer \in StoreAnswers :
       /\ Fault(answer # "data")
       /\ log' = log \o SecretFetches(obj.spec.connector, answer)
       /\ \E r \in resolveSecrets(obj.spec.connector.config, obj.spec.connector.auth, answer) :
             Continue(IF r.ok THEN AfterSecrets(obj, loc)
                      ELSE Fail(loc, conditionTypeConnectorReady,
                                "VaultSecretsResolutionFailed", r.err))

\* updateConnector: UpdateConnection for the identity.
updateConnector ==
    /\ pc = "updateConnector"
    /\ UNCHANGED <<srv, obj, rec>>
    /\ \E a \in AnswersFor(loc.connectorID) :
          /\ Fault(~Succeeded(a) /\ loc.connectorID \in DOMAIN remote.conns)
          /\ Logged(ProviderCall("UpdateConnection", loc.connectorID, "", a))
          /\ IF Succeeded(a)
             THEN /\ remote' = [remote EXCEPT !.conns[loc.connectorID] =
                                   UpdatedConnector(@, obj.spec.connector)]
                  /\ Continue(Goto("updateConnectorHash", loc))
             ELSE /\ remote' = remote
                  /\ Continue(Fail(loc, conditionTypeConnectorReady, "ReconciliationFailed",
                                    WrapFivetranError(a)))

\* handleConnectorFromAnnotation: GetConnection for the identity of the
\* backup annotation and the validation; reconcileConnector wraps every
\* error of it as ErrConnectorValidationFailed with %v.
handleConnectorFromAnnotation ==
    /\ pc = "handleConnectorFromAnnotation"
    /\ UNCHANGED <<srv, obj, rec, remote>>
    /\ \E a \in AnswersFor(obj.idAnn) :
          /\ Fault(~Succeeded(a) /\ obj.idAnn \in DOMAIN remote.conns)
          /\ Logged(ProviderCall("GetConnection", obj.idAnn, "", a))
          /\ IF ~Succeeded(a)
             THEN Continue(Fail(loc, conditionTypeConnectorReady, "ReconciliationFailed",
                                WrapV(ErrConnectorValidationFailed, WrapFivetranError(a))))
             ELSE IF ValidateExisting(obj, remote.conns[obj.idAnn]) # ""
             THEN Continue(Fail(loc, conditionTypeConnectorReady, "ReconciliationFailed",
                                WrapV(ErrConnectorValidationFailed,
                                      PlainErr(ValidateExisting(obj, remote.conns[obj.idAnn])))))
             ELSE Continue(Goto("setConnectorIDStatus", [loc EXCEPT !.connectorID = obj.idAnn]))

\* createConnector: CreateConnection.
createConnector ==
    /\ pc = "createConnector"
    /\ UNCHANGED <<srv, obj, rec>>
    /\ \E a \in Answers :
          /\ Fault(~Succeeded(a))
          /\ Logged(ProviderCall("CreateConnection", "", "", a))
          /\ IF Succeeded(a)
             THEN /\ remote' = [conns |-> [i \in DOMAIN remote.conns \cup {NewID(remote.created)} |->
                                             IF i \in DOMAIN remote.conns THEN remote.conns[i]
                                             ELSE CreatedConnector(obj.spec.connector)],
                                created |-> remote.created + 1]
                  /\ Continue(Goto("setConnectorIDStatus",
                                    [loc EXCEPT !.connectorID = NewID(remote.created)]))
             ELSE /\ remote' = remote
                  /\ Continue(Fail(loc, conditionTypeConnectorReady, "ReconciliationFailed",
                                    WrapFivetranError(a)))

\* The error reconcileConnector returns for a failed write of setConnectorID.
SetConnectorIDError(l) ==
    IF l.path = "annotation"
    THEN WrapV(ErrConnectorValidationFailed, PlainErr("update failed"))
    ELSE PlainErr("update failed")

\* setConnectorID: the status write of the identity.
setConnectorIDStatus ==
    /\ pc = "setConnectorIDStatus"
    /\ UNCHANGED <<rec, remote>>
    /\ \E ok \in BOOLEAN :
          /\ Fault(~ok)
          /\ Logged(Call("Status().Update", loc.connectorID, "connectorID", "", ok))
          /\ StatusUpdate([obj EXCEPT !.status.connectorID = loc.connectorID], ok)
          /\ Continue(IF ok THEN Goto("setConnectorIDAnnotation", loc)
                       ELSE Fail(loc, conditionTypeConnectorReady, "ReconciliationFailed",
                                 SetConnectorIDError(loc)))

\* setConnectorID: the write of the backup annotation.
setConnectorIDAnnotation ==
    /\ pc = "setConnectorIDAnnotation"
    /\ UNCHANGED <<rec, remote>>
    /\ \E ok \in BOOLEAN :
          /\ Fault(~ok)
          /\ Logged(Call("Update", loc.connectorID, "connector-id", "", ok))
          /\ Update([obj EXCEPT !.idAnn = loc.connectorID], ok)
          /\ Continue(IF ~ok
                       THEN Fail(loc, conditionTypeConnectorReady, "ReconciliationFailed",
                                 SetConnectorIDError(loc))
                       ELSE IF loc.path = "annotation" THEN Goto("updateConnector", loc)
                       ELSE Goto("updateConnectorHash", loc))

\* updateConnectorHash: the write of the connector-hash annotation.
updateConnectorHash ==
    /\ pc = "updateConnectorHash"
    /\ UNCHANGED <<rec, remote>>
    /\ \E ok \in BOOLEAN :
          /\ Fault(~ok)
          /\ Logged(Call("Update", "", "connector-hash", "", ok))
          /\ Update([obj EXCEPT !.connHash = calculateConnectorHash(obj)], ok)
          /\ Continue(IF ok THEN Goto("setConnectorReady", loc)
                       ELSE Fail(loc, conditionTypeConnectorReady, "ReconciliationFailed",
                                 PlainErr("update failed")))

\* reconcileSetupTests: whether the tests are run (nil means yes).
RunTests(o) == o.spec.connector.runSetupTests # "false"

\* reconcileConnector: ConnectorReady = True; then reconcileSetupTests.
setConnectorReady ==
    /\ pc = "setConnectorReady"
    /\ UNCHANGED <<rec, remote>>
    /\ \E ok \in BOOLEAN :
          /\ Fault(~ok)
          /\ Logged(Call("Status().Update", "", conditionTypeConnectorReady, "True", ok))
          /\ StatusUpdate(SetCondition(obj, conditionTypeConnectorReady, "True",
                                        "ReconciledSuccessfully",
                                        [text |-> "Connector is ready", detail |-> {}]), ok)
          /\ Continue(IF ~ok
                       THEN Fail(loc, conditionTypeConnectorReady, "ReconciliationFailed",
                                 PlainErr("status update failed"))
                       ELSE IF RunTests(obj) THEN Goto("RunSetupTests", loc)
                       ELSE Goto("updateSetupTestsCondition", loc))

\* The setup test results the provider reports.
SetupTestResults == {setupTestStatusPassed, setupTestStatusWarning, "FAILED"}

\* reconcileSetupTests: RunSetupTests and the reading of its results.
RunSetupTests ==
    /\ pc = "RunSetupTests"
    /\ UNCHANGED <<srv, obj, rec, remote>>
    /\ \E a \in AnswersFor(loc.connectorID) :
          /\ Fault(~Succeeded(a) /\ loc.connectorID \in DOMAIN remote.conns)
          /\ Logged(ProviderCall("RunSetupTests", loc.connectorID, "", a))
          /\ IF ~Succeeded(a)
             THEN Continue(Fail(loc, conditionTypeSetupTestReady, "ReconciliationFailed",
                                WrapFivetranError(a)))
             ELSE \E t \in SetupTestResults :
                    IF t \notin {setupTestStatusPassed, setupTestStatusSkipped,
                                 setupTestStatusWarning}
                    THEN Continue(Fail(loc, conditionTypeSetupTestReady, "ReconciliationFailed",
                                       WrapW(ErrSetupTestsFailed,
                                             PlainErr("reconcileSetupTests failed"))))
                    ELSE Continue(Goto("updateSetupTestsCondition",
                                       [loc EXCEPT !.warnings = (t = setupTestStatusWarning)]))

\* updateSetupTestsCondition: the reason of SetupTestReady = True.
SetupTestsReason(o, warnings) ==
    IF ~RunTests(o) THEN "Skipped"
    ELSE IF warnings THEN "ReconciledSuccessfullyWithWarnings"
    ELSE "ReconciledSuccessfully"

\* updateSetupTestsCondition
updateSetupTestsCondition ==
    /\ pc = "updateSetupTestsCondition"
    /\ UNCHANGED <<rec, remote>>
    /\ \E ok \in BOOLEAN :
          /\ Fault(~ok)
          /\ Logged(Call("Status().Update", "", conditionTypeSetupTestReady, "True", ok))
          /\ StatusUpdate(SetCondition(obj, conditionTypeSetupTestReady, "True",
                                        SetupTestsReason(obj, loc.warnings),
                                        [text |-> "setup tests", detail |-> {}]), ok)
          /\ Continue(IF ok THEN SchemaStep(StoredAfterStatusUpdate(obj, srv), loc)
                       ELSE Fail(loc, conditionTypeSetupTestReady, "ReconciliationFailed",
                                 PlainErr("status update failed")))

\* Reconcile: SchemaReady = True (Skipped) when no schema is reconciled.
setSchemaSkipped ==
    /\ pc = "setSchemaSkipped"
    /\ UNCHANGED <<rec, remote>>
    /\ \E ok \in BOOLEAN :
          /\ Fault(~ok)
          /\ Logged(Call("Status().Update", "", conditionTypeSchemaReady, "True", ok))
          /\ StatusUpdate(SetCondition(obj, conditionTypeSchemaReady, "True", "Skipped",
                                        [text |-> "schema skipped", detail |-> {}]), ok)
          /\ Continue(IF ok THEN FollowUp(StoredAfterStatusUpdate(obj, srv), loc)
                       ELSE Fail(loc, conditionTypeSchemaReady, "Skipped",
                                 PlainErr("status update failed")))

----
\* reconcileSchema.  loc.retried tells whether the recovery cycle (reload,
\* apply, fetch, compare) has been entered.

\* What GetSchemaDetails answers: the live schema, the not-found code, or
\* another error.
SchemaAnswers(id) ==
    IF id \in DOMAIN remote.conns
    THEN {[kind |-> "schema", live |-> s, status |-> 200] : s \in LiveSchemas}
         \cup {[kind |-> SchemaNotFoundError, live |-> <<>>, status |-> 404]}
         \cup {[kind |-> "error", live |-> <<>>, status |-> st] : st \in FailStatuses}
    ELSE {[kind |-> "error", live |-> <<>>, status |-> st] : st \in FailStatuses}

\* schemaDetails.Code of an answer, as far as reconcileSchema looks at it.
ResponseCode(a) == IF a.kind = SchemaNotFoundError THEN SchemaNotFoundError ELSE ""

\* reloadSchema: the exclude mode of the reload.
ExcludeMode(o) ==
    IF o.spec.schemas.handling = "BLOCK_ALL" THEN "EXCLUDE" ELSE "PRESERVE"

\* A reconcileSchema that retries as long as the comparison mismatches.
AfterCompare_unbounded(l, cmp) ==
    IF cmp.matches THEN Goto("setSchemaReady", l)
    ELSE Goto("reloadSchema", [l EXCEPT !.retried = TRUE])

\* reconcileSchema after a comparison: done, one recovery cycle, or the
\* mismatch-after-retry error.
AfterCompare(l, cmp) ==
    IF cmp.matches THEN Goto("setSchemaReady", l)
    ELSE IF ~l.retried THEN Goto("reloadSchema", [l EXCEPT !.retried = TRUE])
    ELSE Fail(l, conditionTypeSchemaReady, "ReconciliationFailed",
              [is |-> {ErrSchemaMismatchAfterRetry}, vault |-> "none", api |-> NoApi,
               text |-> "schema still mismatches CR after retry", detail |-> cmp.report])

\* A first fetch that treats every error as schema-not-found.
GetSchemaDetails_reloadsOnAnyError ==
    /\ pc = "GetSchemaDetails"
    /\ UNCHANGED <<srv, obj, rec, remote>>
    /\ \E a \in SchemaAnswers(loc.connectorID) :
          /\ Fault(a.kind = "error" /\ loc.connectorID \in DOMAIN remote.conns)
          /\ Logged(ProviderCall("GetSchemaDetails", loc.connectorID, ResponseCode(a), a.status))
          /\ Continue(IF a.kind = "schema" THEN Goto("applySchema", loc)
                      ELSE Goto("reloadSchema", loc))

\* reconcileSchema: the first GetSchemaDetails.
GetSchemaDetails ==
    /\ pc = "GetSchemaDetails"
    /\ UNCHANGED <<srv, obj, rec, remote>>
    /\ \E a \in SchemaAnswers(loc.connectorID) :
          /\ Fault(a.kind = "error" /\ loc.connectorID \in DOMAIN remote.conns)
          /\ Logged(ProviderCall("GetSchemaDetails", loc.connectorID, ResponseCode(a), a.status))
          /\ Continue(IF a.kind = "schema" THEN Goto("applySchema", loc)
                      ELSE IF a.kind = SchemaNotFoundError THEN Goto("reloadSchema", loc)
                      ELSE Fail(loc, conditionTypeSchemaReady, "ReconciliationFailed",
                                WrapFivetranError(a.status)))

\* A reload whose error is ignored.
reloadSchema_ignoresError ==
    /\ pc = "reloadSchema"
    /\ UNCHANGED <<srv, obj, rec, remote>>
    /\ \E a \in AnswersFor(loc.connectorID) :
          /\ Fault(~Succeeded(a) /\ loc.connectorID \in DOMAIN remote.conns)
          /\ Logged(ProviderCall("ReloadSchema", loc.connectorID, ExcludeMode(obj), a))
          /\ Continue(Goto("applySchema", loc))

\* reloadSchema: ReloadSchema.
reloadSchema ==
    /\ pc = "reloadSchema"
    /\ UNCHANGED <<srv, obj, rec, remote>>
    /\ \E a \in AnswersFor(loc.connectorID) :
          /\ Fault(~Succeeded(a) /\ loc.connectorID \in DOMAIN remote.conns)
          /\ Logged(ProviderCall("ReloadSchema", loc.connectorID, ExcludeMode(obj), a))
          /\ Continue(IF Succeeded(a) THEN Goto("applySchema", loc)
                      ELSE Fail(loc, conditionTypeSchemaReady, "ReconciliationFailed",
                                WrapFivetranError(a)))

\* applySchema: UpdateSchema.
applySchema ==
    /\ pc = "applySchema"
    /\ UNCHANGED <<srv, obj, rec, remote>>
    /\ \E a \in AnswersFor(loc.connectorID) :
          /\ Fault(~Succeeded(a) /\ loc.connectorID \in DOMAIN remote.conns)
          /\ Logged(ProviderCall("UpdateSchema", loc.connectorID, "", a))
          /\ Continue(IF Succeeded(a) THEN Goto("updateSchemaHash", loc)
                      ELSE Fail(loc, conditionTypeSchemaReady, "ReconciliationFailed",
                                WrapFivetranError(a)))

\* updateSchemaHash: the write of the schema-hash annotation.
updateSchemaHash ==
    /\ pc = "updateSchemaHash"
    /\ UNCHANGED <<rec, remote>>
    /\ \E ok \in BOOLEAN :
          /\ Fault(~ok)
          /\ Logged(Call("Update", "", "schema-hash", "", ok))
          /\ Update([obj EXCEPT !.schemaHash = calculateSchemaHash(obj)], ok)
          /\ Continue(IF ok THEN Goto("verifySchema", loc)
                       ELSE Fail(loc, conditionTypeSchemaReady, "ReconciliationFailed",
                                 PlainErr("update failed")))

\* reconcileSchema: GetSchemaDetails after an apply, and CompareSchemaWithCR.
verifySchema ==
    /\ pc = "verifySchema"
    /\ UNCHANGED <<srv, obj, rec, remote>>
    /\ \E a \in SchemaAnswers(loc.connectorID) :
          /\ Fault(a.kind = "error" /\ loc.connectorID \in DOMAIN remote.conns)
          /\ IF a.kind # "schema"
             THEN /\ Logged(ProviderCall("GetSchemaDetails", loc.connectorID, ResponseCode(a), a.status))
                  /\ Continue(Fail(loc, conditionTypeSchemaReady, "ReconciliationFailed",
                                    WrapFivetranError(a.status)))
             ELSE /\ log' = log \o
                          <<ProviderCall("GetSchemaDetails", loc.connectorID, ResponseCode(a), a.status),
                            Call("CompareSchemaWithCR", loc.connectorID,
                                 BoolText(CompareSchemaWithCR(a.live, obj.spec.schemas).matches),
                                 "", TRUE)>>
                  /\ Continue(AfterCompare(loc, CompareSchemaWithCR(a.live, obj.spec.schemas)))

\* reconcileSchema: SchemaReady = True.
setSchemaReady ==
    /\ pc = "setSchemaReady"
    /\ UNCHANGED <<rec, remote>>
    /\ \E ok \in BOOLEAN :
          /\ Fault(~ok)
          /\ Logged(Call("Status().Update", "", conditionTypeSchemaReady, "True", ok))
          /\ StatusUpdate(SetCondition(obj, conditionTypeSchemaReady, "True",
                                        "ReconciledSuccessfully",
                                        [text |-> "Schema configuration is ready",
                                         detail |-> {}]), ok)
          /\ Continue(IF ok THEN FollowUp(StoredAfterStatusUpdate(obj, srv), loc)
                       ELSE Fail(loc, conditionTypeSchemaReady, "ReconciliationFailed",
                                 PlainErr("status update failed")))

----
\* Reconcile: the follow-up update and the cleanup.

\* Reconcile: updateConnector again (schedule type and pause state).
updateConnectorAgain ==
    /\ pc = "updateConnectorAgain"
    /\ UNCHANGED <<srv, obj, rec>>
    /\ \E a \in AnswersFor(loc.connectorID) :
          /\ Fault(~Succeeded(a) /\ loc.connectorID \in DOMAIN remote.conns)
          /\ Logged(ProviderCall("UpdateConnection", loc.connectorID, "again", a))
          /\ IF Succeeded(a)
             THEN /\ remote' = [remote EXCEPT !.conns[loc.connectorID] =
                                   UpdatedConnector(@, obj.spec.connector)]
                  /\ Continue(Cleanup(obj, loc))
             ELSE /\ remote' = remote
                  /\ Continue(Fail(loc, conditionTypeConnectorReady, "ReconciliationFailed",
                                    WrapFivetranError(a)))

\* cleanupAnnotationsAndLabels: the force-reconcile label.
removeForceLabel ==
    /\ pc = "removeForceLabel"
    /\ UNCHANGED <<rec, remote>>
    /\ \E ok \in BOOLEAN :
          /\ Fault(~ok)
          /\ Logged(Call("Update", "", "force-reconcile", "removed", ok))
          /\ Update([obj EXCEPT !.forceLabel = FALSE], ok)
          /\ Continue(IF ~ok
                       THEN Fail(loc, conditionTypeConnectorReady, "ReconciliationFailed",
                                 PlainErr("update failed"))
                       ELSE IF obj.adoptAnn # "" THEN Goto("removeAdoptAnnotation", loc)
                       ELSE Return(NoRequeue, FALSE, "completed"))

\* A cleanup that returns without removing the adoption annotation.
removeAdoptAnnotation_skipped ==
    /\ pc = "removeAdoptAnnotation"
    /\ UNCHANGED <<rec, remote>>
    /\ \E ok \in BOOLEAN :
          /\ Fault(~ok)
          /\ Logged(Call("Update", "", "adopt-existing-connector-id", "removed", ok))
          /\ Update(obj, ok)
          /\ Continue(IF ok THEN Return(NoRequeue, FALSE, "completed")
                       ELSE Fail(loc, conditionTypeConnectorReady, "ReconciliationFailed",
                                 PlainErr("update failed")))

\* cleanupAnnotationsAndLabels: the adoption annotation.
removeAdoptAnnotation ==
    /\ pc = "removeAdoptAnnotation"
    /\ UNCHANGED <<rec, remote>>
    /\ \E ok \in BOOLEAN :
          /\ Fault(~ok)
          /\ Logged(Call("Update", "", "adopt-existing-connector-id", "removed", ok))
          /\ Update([obj EXCEPT !.adoptAnn = ""], ok)
          /\ Continue(IF ok THEN Return(NoRequeue, FALSE, "completed")
                       ELSE Fail(loc, conditionTypeConnectorReady, "ReconciliationFailed",
                                 PlainErr("update failed")))

----
\* The environment between invocations: the resource owner edits the spec,
\* sets the force-reconcile label or deletes the resource; the status is
\* lost (a restore of the resource without its status).

Event == pc = "idle" /\ srv.exists /\ env.events < MaxEvents

EditConnector ==
    /\ Event
    /\ \E c \in ConnectorSpecs \ {srv.spec.connector} :
          srv' = [srv EXCEPT !.spec.connector = c]
    /\ env' = [env EXCEPT !.events = @ + 1]
    /\ Logged(Call("EditConnector", "", "", "", TRUE))
    /\ UNCHANGED <<obj, rec, pc, loc, remote, outcome>>

EditSchemas ==
    /\ Event
    /\ \E s \in SchemaConfigs \ {srv.spec.schemas} :
          srv' = [srv EXCEPT !.spec.schemas = s]
    /\ env' = [env EXCEPT !.events = @ + 1]
    /\ Logged(Call("EditSchemas", "", "", "", TRUE))
    /\ UNCHANGED <<obj, rec, pc, loc, remote, outcome>>

AddForceLabel ==
    /\ Event
    /\ ~srv.forceLabel
    /\ srv' = [srv EXCEPT !.forceLabel = TRUE]
    /\ env' = [env EXCEPT !.events = @ + 1]
    /\ Logged(Call("AddForceLabel", "", "", "", TRUE))
    /\ UNCHANGED <<obj, rec, pc, loc, remote, outcome>>

LoseStatus ==
    /\ Event
    /\ srv.status.connectorID # ""
    /\ srv' = [srv EXCEPT !.status = [connectorID |-> "", conditions |-> <<>>]]
    /\ env' = [env EXCEPT !.events = @ + 1]
    /\ Logged(Call("LoseStatus", "", "", "", TRUE))
    /\ UNCHANGED <<obj, rec, pc, loc, remote, outcome>>

RequestDelete ==
    /\ Event
    /\ ~srv.deleting
    /\ srv' = [srv EXCEPT !.deleting = TRUE, !.exists = srv.finalizer]
    /\ env' = [env EXCEPT !.events = @ + 1]
    /\ Logged(Call("RequestDelete", "", "", "", TRUE))
    /\ UNCHANGED <<obj, rec, pc, loc, remote, outcome>>

----
\* A new resource, possibly naming a remote connector to adopt (adoption
\* annotation) or to recover (backup annotation); no invocation has run.

Markers == {"none", "adopt", "backup"}

Init ==
    /\ \E c \in ConnectorSpecs, s \in SchemaConfigs, m \in Markers, e \in ExistingConnectors :
          /\ m = "none" => e = ExistingConnector("s1", "g1", <<"pfx">>)
          /\ srv = [NewResource(c, s, IF m = "adopt" THEN "ext" ELSE "")
                       EXCEPT !.idAnn = IF m = "backup" THEN "ext" ELSE ""]
          /\ remote = [conns |-> [i \in {"ext"} |-> e], created |-> 0]
          /\ rec \in [fivetranClientNil : BOOLEAN, vaultClient : {FALSE}]
          /\ rec.fivetranClientNil => m = "none" /\ s = NilSchemaConfig
    /\ obj = srv
    /\ pc = "idle"
    /\ loc = LocInit
    /\ log = <<>>
    /\ outcome = Outcome(NoRequeue, FALSE, "none")
    /\ env = [events |-> 0, invocations |-> 0, faults |-> 0, start |-> srv, prev |-> "none"]

Next ==
    \/ Reconcile
    \/ InitializeVaultClient
    \/ DeleteConnection
    \/ RemoveFinalizer
    \/ ensureFinalizer
    \/ handleExistingConnectorAdoption
    \/ updateConnectorIDStatus
    \/ ResolveSecretsStep
    \/ updateConnector
    \/ handleConnectorFromAnnotation
    \/ createConnector
    \/ setConnectorIDStatus
    \/ setConnectorIDAnnotation
    \/ updateConnectorHash
    \/ setConnectorReady
    \/ RunSetupTests
    \/ updateSetupTestsCondition
    \/ setSchemaSkipped
    \/ GetSchemaDetails
    \/ reloadSchema
    \/ applySchema
    \/ updateSchemaHash
    \/ verifySchema
    \/ setSchemaReady
    \/ updateConnectorAgain
    \/ removeForceLabel
    \/ removeAdoptAnnotation
    \/ handleError
    \/ handleErrorSetupTests
    \/ EditConnector
    \/ EditSchemas
    \/ AddForceLabel
    \/ LoseStatus
    \/ RequestDelete

Spec == Init /\ [][Next]_vars

----
\* Properties of reconcileSchema.

\* The entries of the log whose operation is in ops, in order.
Calls(ops) == SelectSeq(log, LAMBDA c : c.op \in ops)

\* The log from entry i on.
LogFrom(i) == SubSeq(log, i, Len(log))

\* Position of the first comparison of the invocation, 0 if there is none.
FirstCompare ==
    IF \E i \in 1..Len(log) : log[i].op = "CompareSchemaWithCR"
    THEN CHOOSE i \in 1..Len(log) :
            /\ log[i].op = "CompareSchemaWithCR"
            /\ \A j \in 1..(i - 1) : log[j].op # "CompareSchemaWithCR"
    ELSE 0

SchemaOps == {"ReloadSchema", "UpdateSchema", "GetSchemaDetails", "CompareSchemaWithCR"}

\* The schema calls made after the first comparison.
AfterFirstCompare ==
    SelectSeq(LogFrom(FirstCompare + 1), LAMBDA c : c.op \in SchemaOps)

IsPrefix(s, t) == Len(s) <= Len(t) /\ s = SubSeq(t, 1, Len(s))

RecoveryCycle == <<"ReloadSchema", "UpdateSchema", "GetSchemaDetails", "CompareSchemaWithCR">>

Ops(s) == [i \in 1..Len(s) |-> s[i].op]

\* Where an invocation is while the recovery cycle runs.
InRecovery == {"reloadSchema", "applySchema", "updateSchemaHash", "verifySchema"}

\* C1: within one invocation, the schema calls that follow the first
\* comparison are nothing when it matched, and when it mismatched they are
\* the calls of one recovery cycle (reload, apply, fetch, compare) in that
\* order and never more: the invocation is in that cycle or has failed in
\* it until the second comparison is made; a second comparison that matches
\* ends the schema step with success, and a second one that mismatches ends
\* it with ErrSchemaMismatchAfterRetry, without a third reload, apply or
\* comparison.
C1_OneRecoveryCycle ==
    FirstCompare # 0 =>
        IF log[FirstCompare].a = "true"
        THEN AfterFirstCompare = <<>>
        ELSE /\ IsPrefix(Ops(AfterFirstCompare), RecoveryCycle)
             /\ Len(AfterFirstCompare) < 4 =>
                    \/ pc \in InRecovery
                    \/ pc = "handleError" /\ ErrSchemaMismatchAfterRetry \notin loc.err.is
                    \/ pc = "idle" /\ outcome.via = "handleError"
             /\ (Len(AfterFirstCompare) = 4 /\ AfterFirstCompare[4].a = "false") =>
                    \/ pc = "handleError" /\ ErrSchemaMismatchAfterRetry \in loc.err.is
                    \/ pc = "idle" /\ outcome.via = "handleError"
             /\ (Len(AfterFirstCompare) = 4 /\ AfterFirstCompare[4].a = "true") =>
                    ~(pc = "handleError" /\ ErrSchemaMismatchAfterRetry \in loc.err.is)

\* C1 witness: both comparisons mismatched and the invocation has stopped
\* with the mismatch-after-retry error.
C1_Witness ==
    /\ pc = "handleError"
    /\ ErrSchemaMismatchAfterRetry \in loc.err.is
    /\ Len(Calls({"CompareSchemaWithCR"})) = 2
    /\ Len(Calls({"ReloadSchema"})) >= 1

----
\* Properties of Reconcile.

ConditionTypes ==
    {conditionTypeConnectorReady, conditionTypeSetupTestReady, conditionTypeSchemaReady}

ProviderOps ==
    {"CreateConnection", "GetConnection", "UpdateConnection", "DeleteConnection",
     "RunSetupTests", "GetSchemaDetails", "ReloadSchema", "UpdateSchema"}

LastCall == log[Len(log)]

\* The resource store holds a condition of the type with the status.
HasCondition(o, conditionType, status) ==
    \E i \in 1..Len(o.status.conditions) :
        /\ o.status.conditions[i].type = conditionType
        /\ o.status.conditions[i].status = status

ConditionOf(o, conditionType) ==
    o.status.conditions[CHOOSE i \in 1..Len(o.status.conditions) :
                            o.status.conditions[i].type = conditionType]

\* An invocation runs, or the last one has returned and nothing happened since.
InInvocation == env.invocations > 0 /\ env.start.exists /\ (pc # "idle" \/ Untouched)

\* The last invocation has returned by the return statement `via`.
Ended(via) == pc = "idle" /\ InInvocation /\ outcome.via = via

\* The outcome makes the caller run Reconcile again.
Requeued == outcome.result # NoRequeue \/ outcome.err

\* The invocation ended with the mismatch-after-retry error.
MismatchEnded ==
    /\ Ended("handleError")
    /\ Len(Calls({"CompareSchemaWithCR"})) = 2
    /\ Calls({"CompareSchemaWithCR"})[2].a = "false"

\* SchemaReady is False and its message carries a mismatch report.
SchemaReadyFalseWithReport ==
    /\ HasCondition(srv, conditionTypeSchemaReady, "False")
    /\ \E s \in LiveSchemas :
          /\ ~CompareSchemaWithCR(s, srv.spec.schemas).matches
          /\ ConditionOf(srv, conditionTypeSchemaReady).message.detail
                = CompareSchemaWithCR(s, srv.spec.schemas).report

\* C2 as stated: an invocation that ends with the mismatch-after-retry error
\* has set SchemaReady to False with the mismatch report in the message and
\* its outcome does not requeue: no requeue, no requeue-after, no error.
C2_AsStated ==
    MismatchEnded => SchemaReadyFalseWithReport /\ ~Requeued

\* C2 amended: an invocation that ends with the mismatch-after-retry error
\* returns the empty result, never a requeue or requeue-after; when the
\* status write of handleError succeeds, SchemaReady is False with the
\* mismatch report in the message and no error is returned; when that write
\* fails, the write's error is returned (and the caller retries).
C2_MismatchIsTerminalWhenWritten ==
    MismatchEnded =>
        /\ outcome.result = NoRequeue
        /\ IF LastCall.ok
           THEN SchemaReadyFalseWithReport /\ ~outcome.err
           ELSE outcome.err

\* C2 witness: the mismatch-after-retry error was written to the status.
C2_Witness == MismatchEnded /\ LastCall.ok /\ LastCall.a = conditionTypeSchemaReady

\* What the claims call "nothing to do": no force-reconcile marker, no False
\* condition, the connector fingerprint is the stored one, and the schema
\* fingerprint is the stored one or no schema configuration is declared.
Quiet(o) ==
    /\ ~o.forceLabel
    /\ ~hasFailedConditions(o)
    /\ calculateConnectorHash(o) = o.connHash
    /\ (calculateSchemaHash(o) = o.schemaHash \/ ~hasSchemaConfig(o))

\* The invocation has made no secret fetch and no provider call.
NothingApplied == Calls(ProviderOps \cup {"KVv2.Get"}) = <<>>

\* The conditions and both stored fingerprints are as the invocation found them.
StatusAndFingerprintsKept ==
    /\ srv.status.conditions = env.start.status.conditions
    /\ srv.connHash = env.start.connHash
    /\ srv.schemaHash = env.start.schemaHash

\* The invocation is on the way to the no-op return, or has taken it.
OnNoOpPath ==
    \/ pc \in {"vaultClient", "ensureFinalizer"}
    \/ pc = "idle" /\ outcome.via = "noop"

\* The invocation stopped because the vault client could not be initialised.
VaultInitFailed ==
    \/ pc = "handleError" /\ ErrVaultClientInitializationFailed \in loc.err.is
    \/ pc = "idle" /\ outcome.via = "handleError"
          /\ LastCall.id = "VaultClientInitializationFailed"

\* C3 as stated: an invocation that finds the resource with nothing to do
\* returns the no-op outcome, makes no secret fetch and no provider call, and
\* leaves the conditions and both stored fingerprints unchanged.
C3_AsStated ==
    (InInvocation /\ Quiet(env.start)) =>
        OnNoOpPath /\ NothingApplied /\ StatusAndFingerprintsKept

\* C3 amended: an invocation that finds the resource with nothing to do, not
\* under deletion and with an identity in its status, with the provider
\* client initialised, makes no secret fetch and no provider call; unless the
\* initialisation of the vault client fails (which sets ConnectorReady to
\* False), it returns the no-op outcome and leaves the conditions and both
\* stored fingerprints unchanged.
C3_NoOpWhenNothingToDo ==
    ( /\ InInvocation
      /\ Quiet(env.start)
      /\ ~env.start.deleting
      /\ env.start.status.connectorID # ""
      /\ ~rec.fivetranClientNil ) =>
        /\ NothingApplied
        /\ \/ OnNoOpPath /\ StatusAndFingerprintsKept
           \/ VaultInitFailed

\* C3 witness: a reconciled resource, found with nothing to do, got the
\* no-op outcome.
C3_Witness ==
    /\ Ended("noop")
    /\ Quiet(env.start)
    /\ env.start.status.connectorID # ""
    /\ hasSchemaConfig(env.start)
    /\ log = <<>>

\* C4 as stated: an invocation that completed all its steps leaves the
\* stored fingerprints equal to the current ones, no False condition and no
\* force-reconcile marker, and the following invocation on the unchanged
\* resource takes the no-op path and applies nothing.
C4_AsStated ==
    /\ Ended("completed") =>
          /\ calculateConnectorHash(srv) = srv.connHash
          /\ calculateSchemaHash(srv) = srv.schemaHash
          /\ ~hasFailedConditions(srv)
          /\ ~srv.forceLabel
    /\ (InInvocation /\ env.prev = "completed") => OnNoOpPath /\ NothingApplied

\* C4 amended: an invocation that completed all its steps leaves a resource
\* with nothing to do (the connector fingerprint is the stored one, the
\* schema fingerprint is the stored one or no schema configuration is
\* declared, no False condition, no force-reconcile marker) and an identity in
\* its status, so that determineReconciliationNeeds asks for nothing; the
\* following invocation on the unchanged resource applies nothing, and takes
\* the no-op return unless the initialisation of the vault client fails.
C4_CompletedThenNoOp ==
    /\ Ended("completed") =>
          /\ srv.exists
          /\ Quiet(srv)
          /\ srv.status.connectorID # ""
          /\ determineReconciliationNeeds(srv, srv.forceLabel)
                = [connector |-> FALSE, schema |-> FALSE]
    /\ (InInvocation /\ env.prev = "completed") =>
          /\ NothingApplied
          /\ OnNoOpPath \/ VaultInitFailed

\* C4 witness: the invocation after a completed one returned the no-op outcome.
C4_Witness == Ended("noop") /\ env.prev = "completed" /\ log = <<>>

\* The identity state the invocation found.
StatusIdentity == env.start.status.connectorID
MarkerIdentity == env.start.idAnn

\* Some call of the operation for the identity succeeded before position i.
SucceededBefore(op, id, i) ==
    \E j \in 1..(i - 1) : log[j].op = op /\ log[j].id = id /\ log[j].ok

C6_AsStated ==
    (pc = "idle" /\ InInvocation /\ srv.exists /\ srv.status.connectorID # "") =>
        srv.idAnn = srv.status.connectorID

\* A remote connector was fetched for adoption or recovery and its service
\* or group differs from the declared one.
FetchedWithMismatch ==
    \E i \in 1..Len(log) :
        /\ log[i].op = "GetConnection"
        /\ log[i].ok
        /\ log[i].id \in DOMAIN remote.conns
        /\ \/ remote.conns[log[i].id].service # env.start.spec.connector.service
           \/ remote.conns[log[i].id].groupID # env.start.spec.connector.groupID

\* C7 as stated (with the status write of the failure taken to succeed): when
\* the connector fetched for adoption has another service or group than the
\* declared one, no identity is written to the status, no update or create
\* call is made, and the invocation ends with ConnectorReady False carrying
\* the mismatch message and an outcome that does not requeue.
C7_AsStated ==
    (InInvocation /\ FetchedWithMismatch) =>
        /\ srv.status.connectorID = ""
        /\ Calls({"CreateConnection", "UpdateConnection"}) = <<>>
        /\ (pc = "idle" /\ LastCall.ok) =>
              /\ HasCondition(srv, conditionTypeConnectorReady, "False")
              /\ ConditionOf(srv, conditionTypeConnectorReady).message.text
                    \in {"service mismatch", "group_id mismatch"}
              /\ ~Requeued

\* A write of handleError.
IsHandleErrorWrite(c) ==
    c.op = "Status().Update" /\ c.a \in ConditionTypes /\ c.id # ""

\* Position of the call the invocation failed at: the last entry of the log
\* that is no write of handleError (0 if there is none).
FailedAt ==
    IF \E i \in 1..Len(log) : ~IsHandleErrorWrite(log[i])
    THEN CHOOSE i \in 1..Len(log) :
            /\ ~IsHandleErrorWrite(log[i])
            /\ \A j \in (i + 1)..Len(log) : IsHandleErrorWrite(log[j])
    ELSE 0

\* The invocation stopped on an error answer of the provider.
StoppedOnProviderError ==
    /\ Ended("handleError")
    /\ FailedAt # 0
    /\ log[FailedAt].op \in ProviderOps
    /\ ~log[FailedAt].ok

\* C8 as stated (with the status write of the failure taken to succeed): an
\* invocation that stops on a provider error sets the failing step's
\* condition to False and its result follows from the status code alone:
\* requeue after the fixed delay for a retryable code, no requeue for a
\* terminal one.
C8_AsStated ==
    StoppedOnProviderError =>
        /\ outcome.result = IF APIErrorIsRetryable(log[FailedAt].code)
                            THEN RequeueAfterDelay ELSE NoRequeue
        /\ LastCall.ok => HasCondition(srv, LastCall.a, "False")

\* The causes a secret resolution fails for, told from the references of the
\* declared documents and from what the store answers.
Cause(value, answer) ==
    LET ref == TrimVaultPrefix(value)
    IN IF ~HasVaultPrefix(value) THEN "none"
       ELSE IF FirstHash(ref) \in {0, 1, Len(ref)} THEN "malformed"
       ELSE IF answer = "transport" THEN "transport"
       ELSE IF answer = "nil" THEN "nil data"
       ELSE IF answer = "nodata" THEN "not found"
       ELSE IF SubSeq(ref, FirstHash(ref) + 1, Len(ref)) \notin StoreKeys THEN "missing key"
       ELSE "none"

Causes(c, answer) ==
    ( {Cause(c.config.fields[k], answer) : k \in DOMAIN c.config.fields}
      \cup {Cause(c.auth.fields[k], answer) : k \in DOMAIN c.auth.fields} ) \ {"none"}

\* What the store answered in the invocation ("data" if it was not asked).
StoreAnswer ==
    IF Calls({"KVv2.Get"}) # <<>> THEN Calls({"KVv2.Get"})[1].b ELSE "data"

\* The invocation stopped in resolveSecrets.
StoppedOnSecrets ==
    /\ Ended("handleError")
    /\ LastCall.id = "VaultSecretsResolutionFailed"

StepCondition(c) ==
    IF c.op = "RunSetupTests" \/ (c.op = "Status().Update" /\ c.a = conditionTypeSetupTestReady)
    THEN conditionTypeSetupTestReady
    ELSE IF \/ c.op \in SchemaOps
            \/ c.op = "Update" /\ c.a = "schema-hash"
            \/ c.op = "Status().Update" /\ c.a = conditionTypeSchemaReady
    THEN conditionTypeSchemaReady
    ELSE conditionTypeConnectorReady

\* The condition of the step the invocation failed at.
FailedCondition ==
    IF FailedAt = 0 THEN conditionTypeConnectorReady ELSE StepCondition(log[FailedAt])

\* C10 as stated: an invocation that stops on a failure has attempted a
\* status write that sets the failing step's condition to False.
C10_AsStated ==
    Ended("handleError") =>
        \E i \in 1..Len(log) :
            /\ IsHandleErrorWrite(log[i])
            /\ log[i].a = FailedCondition
            /\ log[i].b = "False"

\* C10 amended: an invocation that stops on a failure ends with a status
\* write attempted by handleError.  That write sets the failing step's
\* condition to False, except when the setup tests failed: then ConnectorReady
\* = True is written first, and when this write fails the invocation returns
\* its error without attempting the write of SetupTestReady = False.
C10_FailureWritesStatus ==
    Ended("handleError") =>
        /\ IsHandleErrorWrite(LastCall)
        /\ \/ LastCall.a = FailedCondition /\ LastCall.b = "False"
           \/ /\ LastCall.a = conditionTypeConnectorReady
              /\ LastCall.b = "True"
              /\ ~LastCall.ok
              /\ outcome.err
              /\ log[FailedAt].op = "RunSetupTests"
              /\ log[FailedAt].ok

\* C10 witness: a failure in the schema step was written as SchemaReady = False.
C10_Witness ==
    /\ Ended("handleError")
    /\ LastCall.a = conditionTypeSchemaReady
    /\ LastCall.b = "False"
    /\ FailedAt # 0
    /\ log[FailedAt].op \in SchemaOps

----
\* Properties of the setup tests (reconcileSetupTests, handleError,
\* updateSetupTestsCondition).

\* The setup tests ran and reported a test that is neither PASSED, SKIPPED
\* nor WARNING: the invocation stopped right after a successful RunSetupTests.
SetupTestsFailed ==
    /\ Ended("handleError")
    /\ FailedAt # 0
    /\ log[FailedAt].op = "RunSetupTests"
    /\ log[FailedAt].ok

\* The last call is the successful write of SetupTestReady = True by
\* updateSetupTestsCondition.
SetupTestsAccepted ==
    /\ InInvocation
    /\ log # <<>>
    /\ LastCall = Call("Status().Update", "", conditionTypeSetupTestReady, "True", TRUE)

\* C11 as stated: after failed setup tests the invocation ends with
\* ConnectorReady = True, SetupTestReady = False and no requeue; after
\* accepted ones (warnings included) both conditions are True and the
\* invocation is in the schema step.
C11_AsStated ==
    /\ SetupTestsFailed =>
          /\ HasCondition(srv, conditionTypeConnectorReady, "True")
          /\ HasCondition(srv, conditionTypeSetupTestReady, "False")
          /\ ~Requeued
    /\ SetupTestsAccepted =>
          /\ HasCondition(srv, conditionTypeConnectorReady, "True")
          /\ HasCondition(srv, conditionTypeSetupTestReady, "True")
          /\ pc \in {"GetSchemaDetails", "setSchemaSkipped"}

\* C11 amended: after failed setup tests the invocation ends with the empty
\* result and ConnectorReady = True; when both status writes of handleError
\* succeed, SetupTestReady is False with ErrSetupTestsFailed's reason and no
\* error is returned; when one of them fails, its error is returned (and the
\* caller retries).  After accepted setup tests (passed, skipped, or with
\* warnings) both conditions are True and the invocation goes on with the
\* schema step.
C11_SetupTestOutcome ==
    /\ SetupTestsFailed =>
          /\ HasCondition(srv, conditionTypeConnectorReady, "True")
          /\ outcome.result = NoRequeue
          /\ IF LastCall.ok
             THEN /\ LastCall.a = conditionTypeSetupTestReady
                  /\ HasCondition(srv, conditionTypeSetupTestReady, "False")
                  /\ ~outcome.err
             ELSE outcome.err
    /\ SetupTestsAccepted =>
          /\ HasCondition(srv, conditionTypeConnectorReady, "True")
          /\ HasCondition(srv, conditionTypeSetupTestReady, "True")
          /\ pc \in {"GetSchemaDetails", "setSchemaSkipped"}

\* C11 witness: failed setup tests were written as SetupTestReady = False
\* next to ConnectorReady = True.
C11_Witness ==
    /\ SetupTestsFailed
    /\ LastCall.ok
    /\ HasCondition(srv, conditionTypeConnectorReady, "True")
    /\ HasCondition(srv, conditionTypeSetupTestReady, "False")

----
\* setCondition on its own: any sequence of condition updates on a new
\* resource.  Each update is the whole of setCondition: the change of the
\* in-memory list and r.Status().Update, which the environment lets succeed
\* or fail.

ConditionStatuses == {"True", "False"}

\* The reason Reconcile gives with a status.
ReasonOf(status) ==
    IF status = "True" THEN "ReconciledSuccessfully" ELSE "ReconciliationFailed"

InitConditions ==
    /\ srv = NewResource(ConnectorSpec(ConfigGood, NilDoc, FALSE, "nil", "auto"),
                         NilSchemaConfig, "")
    /\ obj = srv
    /\ rec = [fivetranClientNil |-> FALSE, vaultClient |-> TRUE]
    /\ pc = "setCondition"
    /\ loc = LocInit
    /\ remote = [conns |-> <<>>, created |-> 0]
    /\ log = <<>>
    /\ outcome = Outcome(NoRequeue, FALSE, "running")
    /\ env = [events |-> 0, invocations |-> 1, faults |-> 0, start |-> srv, prev |-> "none"]

setCondition ==
    /\ pc = "setCondition"
    /\ Len(log) < MaxUpdates
    /\ \E conditionType \in ConditionTypes, status \in ConditionStatuses, ok \in BOOLEAN :
          /\ StatusUpdate(SetCondition(obj, conditionType, status, ReasonOf(status),
                                        [text |-> "", detail |-> {}]), ok)
          /\ Logged(Call("Status().Update", ReasonOf(status), conditionType, status, ok))
    /\ UNCHANGED <<rec, pc, loc, remote, outcome, env>>

NextConditions == setCondition

SpecConditions == InitConditions /\ [][NextConditions]_vars

\* No two records of the list have the same type.
OnePerType(cs) ==
    \A i, j \in 1..Len(cs) : cs[i].type = cs[j].type => i = j

\* The list `new` is the list `old` with the record c upserted by type:
\* replaced in place when the type is there, appended when it is not, every
\* other record as it was.
Upserted(old, new, c) ==
    IF \E i \in 1..Len(old) : old[i].type = c.type
    THEN /\ Len(new) = Len(old)
         /\ \A i \in 1..Len(old) :
               new[i] = IF old[i].type = c.type THEN c ELSE old[i]
    ELSE /\ Len(new) = Len(old) + 1
         /\ new[Len(new)] = c
         /\ \A i \in 1..Len(old) : new[i] = old[i]

\* The record the last call asked for.
Requested(c) ==
    [type |-> c.a, status |-> c.b, reason |-> c.id, message |-> [text |-> "", detail |-> {}]]

\* C12: every condition update upserts the record by type in the list of the
\* object it works on (replace in place, or append, the other records
\* unchanged); the list it leaves and the stored list hold at most one
\* record per type; a successful update stores that list, a failed one
\* leaves the stored list as it was.
C12_UpsertByType ==
    [][ /\ Upserted(obj.status.conditions, obj'.status.conditions,
                    Requested(log'[Len(log')]))
        /\ OnePerType(obj'.status.conditions)
        /\ OnePerType(srv'.status.conditions)
        /\ srv'.status.conditions =
              IF log'[Len(log')].ok THEN obj'.status.conditions
              ELSE srv.status.conditions ]_vars

\* C12 witness: all three types are set and a fourth update has replaced
\* one of them.
C12_Witness ==
    /\ pc = "setCondition"
    /\ Len(log) = 4
    /\ Len(srv.status.conditions) = 3
    /\ log[4].ok
    /\ log[4].a = srv.status.conditions[1].type

----
\* Properties of the markers.

\* The markers the invocation found on the resource.
ForceMarkerAtStart == env.start.forceLabel
AdoptMarkerAtStart == env.start.adoptAnn # ""

\* The invocation failed in cleanupAnnotationsAndLabels on the removal of
\* the adoption annotation.
AdoptRemovalFailed ==
    /\ FailedAt # 0
    /\ log[FailedAt] = Call("Update", "", "adopt-existing-connector-id", "removed", FALSE)

\* C13 as stated: after an invocation that completed, no marker is on the
\* resource; an invocation that failed has removed no marker it found.
C13_AsStated ==
    /\ Ended("completed") => ~srv.forceLabel /\ srv.adoptAnn = ""
    /\ Ended("handleError") =>
          /\ ForceMarkerAtStart => srv.forceLabel
          /\ AdoptMarkerAtStart => srv.adoptAnn # ""

\* C13 amended: after an invocation that completed, no marker is on the
\* resource; the invocation that adopts (and asks for an immediate requeue)
\* leaves the adoption annotation in place; an invocation that failed has
\* not removed the adoption annotation, and has removed the force-reconcile
\* label only when it failed on the removal of the adoption annotation that
\* follows in the cleanup.
C13_MarkersRemovedByCleanup ==
    /\ Ended("completed") => ~srv.forceLabel /\ srv.adoptAnn = ""
    /\ Ended("adopted") => AdoptMarkerAtStart /\ srv.adoptAnn = env.start.adoptAnn
    /\ Ended("handleError") =>
          /\ srv.adoptAnn = env.start.adoptAnn
          /\ (ForceMarkerAtStart /\ ~srv.forceLabel) => AdoptRemovalFailed
          /\ ~ForceMarkerAtStart => ~srv.forceLabel

\* C13 witness: an invocation that found both markers completed.
C13_Witness ==
    /\ Ended("completed")
    /\ ForceMarkerAtStart
    /\ AdoptMarkerAtStart

----
\* Properties of the return of Reconcile.

\* The invocation stopped on a validation failure: the connector fetched for
\* adoption or recovery differs from the declared one.
StoppedOnValidation ==
    /\ Ended("handleError")
    /\ FetchedWithMismatch
    /\ FailedAt # 0
    /\ log[FailedAt].op = "GetConnection"

\* C14 as stated (with the status write of the failure taken to succeed):
\* every return of Reconcile is the empty result or requeue-after the fixed
\* delay, never an immediate requeue; a terminal failure (here: the
\* validation failure of adoption or recovery) is returned as the empty
\* result without an error, the failure being recorded in a False condition.
C14_AsStated ==
    /\ (pc = "idle" /\ InInvocation) => outcome.result \in {NoRequeue, RequeueAfterDelay}
    /\ (StoppedOnValidation /\ LastCall.ok) =>
          /\ outcome.result = NoRequeue
          /\ ~outcome.err
          /\ HasCondition(srv, LastCall.a, "False")

----
\* WrapFivetranError and APIError.IsRetryable on their own: every error the
\* SDK can return, wrapped and then classified as handleError does.

\* The error strings of the SDK: "status code: <code>; expected: <expected>"
\* (form "full"), a string that starts like it but lacks the second number
\* (form "partial"), and any other text (form "other").
StatusCodes == 0..MaxStatus

SDKErrors ==
    [form : {"full"}, code : StatusCodes, expected : {200, 201}]
    \cup [form : {"partial"}, code : StatusCodes, expected : {0}]
    \cup [form : {"other"}, code : {0}, expected : {0}]

\* WrapFivetranError: fmt.Sscanf(err.Error(), "status code: %d; expected: %d",
\* &code, &expected); the status code is taken only when both numbers scan.
ParsedStatusCode(raw) == IF raw.form = "full" THEN raw.code ELSE 0

InitErrors ==
    /\ srv = NewResource(ConnectorSpec(ConfigGood, NilDoc, FALSE, "nil", "auto"),
                         NilSchemaConfig, "")
    /\ obj = srv
    /\ rec = [fivetranClientNil |-> FALSE, vaultClient |-> TRUE]
    /\ pc = "WrapFivetranError"
    /\ loc = LocInit
    /\ remote = [conns |-> <<>>, created |-> 0]
    /\ log = <<>>
    /\ outcome = Outcome(NoRequeue, FALSE, "running")
    /\ \E raw \in SDKErrors : env = [raw |-> raw]

\* WrapFivetranError(resp, err) for a non-nil err.
WrapFivetranErrorCall ==
    /\ pc = "WrapFivetranError"
    /\ loc' = [loc EXCEPT !.err = WrapFivetranError(ParsedStatusCode(env.raw))]
    /\ pc' = "IsRetryable"
    /\ UNCHANGED <<srv, obj, rec, remote, log, outcome, env>>

\* handleError on the *APIError: the result follows fivetranErr.IsRetryable().
IsRetryableCall ==
    /\ pc = "IsRetryable"
    /\ outcome' = Outcome(HandleErrorResult(loc.err), FALSE, "handleError")
    /\ pc' = "done"
    /\ UNCHANGED <<srv, obj, rec, loc, remote, log, env>>

NextErrors == WrapFivetranErrorCall \/ IsRetryableCall

SpecErrors == InitErrors /\ [][NextErrors]_vars

\* C20: the wrapped error carries the status code of the SDK error when its
\* text has the form "status code: <code>; expected: <expected>" and 0
\* otherwise, and it is retryable exactly when that code is 429, at least
\* 500, or below 400 (which includes 0).
C20_RetryableByStatus ==
    LET code == IF env.raw.form = "full" THEN env.raw.code ELSE 0
    IN /\ pc # "WrapFivetranError" => loc.err.api = code
       /\ pc = "done" =>
             ( (outcome.result = RequeueAfterDelay) <=>
                 (code = 429 \/ code >= 500 \/ code < 400) )
       /\ pc = "done" => outcome.result \in {RequeueAfterDelay, NoRequeue}

\* C20 witness: an error whose status code could not be parsed has been
\* classified as retryable.
C20_Witness ==
    /\ pc = "done"
    /\ env.raw.form = "partial"
    /\ env.raw.code = 404
    /\ loc.err.api = 0
    /\ outcome.result = RequeueAfterDelay

----
\* updateConnector on its own: the update built from one resolved spec is
\* applied, any number of times, to two remote connectors ("a" and "b") that
\* may differ in what they held before.

\* What a remote connector of the declared service and group can hold.
RemoteConnectors ==
    [service : {"s1"}, groupID : {"g1"}, schema : {<<"pfx">>}, paused : BOOLEAN,
     scheduleType : {"auto", "manual"},
     config : {NilDoc, Resolved(ConfigGood)},
     auth : {NilDoc, Resolved(ConfigEdited)}]

InitUpdate ==
    /\ \E c \in ConnectorSpecs :
          srv = [NewResource(c, NilSchemaConfig, "") EXCEPT !.status.connectorID = "a"]
    /\ obj = srv
    /\ rec = [fivetranClientNil |-> FALSE, vaultClient |-> TRUE]
    /\ pc = "updateConnector"
    /\ loc = LocInit
    /\ \E x, y \in RemoteConnectors : remote = [conns |-> [a |-> x, b |-> y], created |-> 0]
    /\ log = <<>>
    /\ outcome = Outcome(NoRequeue, FALSE, "running")
    /\ env = [events |-> 0, invocations |-> 1, faults |-> 0, start |-> srv, prev |-> "none"]

\* updateConnector and updateConnectorHash, both succeeding: UpdateConnection
\* with the connector toFivetranConnector builds, then the fingerprint of the
\* spec into the annotation.
updateConnectorPass ==
    /\ pc = "updateConnector"
    /\ Len(log) < MaxUpdates
    /\ \E id \in DOMAIN remote.conns :
          /\ remote' = [remote EXCEPT !.conns[id] = UpdatedConnector(@, obj.spec.connector)]
          /\ Logged(ProviderCall("UpdateConnection", id, "", 200))
    /\ Update([obj EXCEPT !.connHash = calculateConnectorHash(obj)], TRUE)
    /\ UNCHANGED <<rec, pc, loc, outcome, env>>

NextUpdate == updateConnectorPass

SpecUpdate == InitUpdate /\ [][NextUpdate]_vars

\* The connector was updated at least once.
UpdatedOnce(id) == \E i \in 1..Len(log) : log[i].id = id

\* C18 as stated: the state of a remote connector after an update is
\* determined by the resolved spec alone: two connectors updated from the
\* same spec hold the same values, whatever they held before.
C18_AsStated ==
    (UpdatedOnce("a") /\ UpdatedOnce("b")) => remote.conns["a"] = remote.conns["b"]

\* C19: an update of a connector that was already updated from the same spec
\* leaves the remote connector as it is and stores the fingerprint that is
\* already stored.
C19_UpdateIdempotent ==
    [][ UpdatedOnce(log'[Len(log')].id) =>
           /\ remote'.conns[log'[Len(log')].id] = remote.conns[log'[Len(log')].id]
           /\ srv'.connHash = srv.connHash
           /\ srv.connHash = calculateConnectorHash(srv) ]_vars

\* C19 witness: a connector that held other values than the spec declares
\* was updated twice.
C19_Witness ==
    /\ Len(log) = 2
    /\ log[1].id = "a"
    /\ log[2].id = "a"
    /\ srv.connHash # NoHash
    /\ remote.conns["a"].paused = srv.spec.connector.paused
    /\ remote.conns["a"].scheduleType # srv.spec.connector.scheduleType

----
\* resolveSecrets on its own: the two documents of a connector are resolved
\* one after the other, each by one call of vault.ResolveSecrets with its own
\* cache, value by value; Reconcile then calls the provider or handleError.
\*
\* A document is held as the JSON text of its RawExtension: a tree whose
\* mappings list their entries in the order they are written.

E(key, node) == [key |-> key, node |-> node]
JStr(value) == [kind |-> "string", value |-> value, items |-> <<>>]
JNum(value) == [kind |-> "number", value |-> value, items |-> <<>>]
JMap(items) == [kind |-> "map", value |-> <<>>, items |-> items]
JSlice(items) == [kind |-> "slice", value |-> <<>>, items |-> items]

\* A *runtime.RawExtension; nil is NilRaw.
NilRaw == [present |-> FALSE, raw |-> JMap(<<>>)]
Raw(node) == [present |-> TRUE, raw |-> node]

Ref(path, key) == JStr(<<VaultPrefix, path, "#", key>>)

\* The documents a connector declares.
SecretTrees ==
    { JMap(<<E("a", Ref("p", "k")), E("b", Ref("p", "u"))>>),
      JMap(<<E("a", Ref("p", "k")),
             E("n", JMap(<<E("x", Ref("p", "u")), E("y", JStr(<<"db">>))>>))>>),
      JMap(<<E("s", JSlice(<<E("", Ref("p", "k")), E("", Ref("q", "k"))>>)),
             E("a", Ref("p", "u")), E("n", JNum(<<"1">>))>>),
      JMap(<<E("a", Ref("q", "k")), E("b", Ref("p", "k")), E("c", Ref("p", "z"))>>),
      JMap(<<E("a", JStr(<<VaultPrefix, "p">>)), E("b", Ref("p", "k"))>>),
      JMap(<<E("b", JStr(<<"db">>)), E("a", JNum(<<"1">>))>>) }

AuthTrees ==
    { JMap(<<E("a", Ref("p", "k")), E("b", Ref("p", "u"))>>),
      JMap(<<E("a", Ref("q", "k")), E("b", Ref("p", "k")), E("c", Ref("p", "z"))>>) }

SecretPaths == {<<"p">>, <<"q">>}

\* The permutations of 1..n.
Perms(n) == {f \in [1..n -> 1..n] : \A i, j \in 1..n : f[i] = f[j] => i = j}

\* The concatenations of one sequence of each set of ss, in the order of ss.
RECURSIVE Concats(_)
Concats(ss) ==
    IF ss = <<>> THEN {<<>>}
    ELSE {h \o t : h \in Head(ss), t \in Concats(Tail(ss))}

\* resolveValue / resolveMap / resolveSlice: the orders in which one call can
\* come to the string values of a tree.  A sequence is walked by index, a
\* mapping in any order of its keys (range over a Go map), depth first.
RECURSIVE Walks(_)
Walks(node) ==
    CASE node.kind = "string" -> {<<node.value>>}
      [] node.kind = "number" -> {<<>>}
      [] node.kind = "slice" ->
            Concats([i \in 1..Len(node.items) |-> Walks(node.items[i].node)])
      [] OTHER ->
            UNION {Concats([i \in 1..Len(node.items) |-> Walks(node.items[f[i]].node)]) :
                      f \in Perms(Len(node.items))}

\* The order json.Marshal writes the keys of a mapping in.
KeyOrder == <<"a", "b", "c", "n", "s", "x", "y">>
KeyRank(key) == CHOOSE i \in 1..Len(KeyOrder) : KeyOrder[i] = key

SortedByKey(items) ==
    LET f == CHOOSE g \in Perms(Len(items)) :
                \A i, j \in 1..Len(items) :
                    i < j => KeyRank(items[g[i]].key) < KeyRank(items[g[j]].key)
    IN [i \in 1..Len(items) |-> items[f[i]]]

\* The value resolveString returns for a string whose resolution succeeds.
SecretValue(value) ==
    IF HasVaultPrefix(value)
    THEN <<"secret">> \o parseVaultReference(value).path \o parseVaultReference(value).key
    ELSE value

\* json.Marshal(resolvedData): every string resolved, the keys of every
\* mapping sorted.
RECURSIVE MarshalResolved(_)
MarshalResolved(node) ==
    CASE node.kind = "string" -> JStr(SecretValue(node.value))
      [] node.kind = "number" -> node
      [] node.kind = "slice" ->
            JSlice([i \in 1..Len(node.items) |-> E("", MarshalResolved(node.items[i].node))])
      [] OTHER ->
            JMap(SortedByKey([i \in 1..Len(node.items) |->
                                 E(node.items[i].key, MarshalResolved(node.items[i].node))]))

\* A getPathData that never finds a path in the cache.
CacheHit_never(cache, path) == FALSE

\* getPathData: whether the path is in the cache of the call.
CacheHit(cache, path) == path \in cache

\* The locals of resolveSecrets and of the ResolveSecrets call it is in.
SecretsLocInit ==
    [doc |-> "config", configCopy |-> NilRaw, authCopy |-> NilRaw,
     resolvedConfig |-> NilRaw, resolvedAuth |-> NilRaw, allErrors |-> <<>>,
     todo |-> <<>>, cache |-> {},
     out |-> [config |-> NilRaw, auth |-> NilRaw, err |-> FALSE]]

InitSecrets ==
    /\ \E c \in SecretTrees, a \in {NilRaw} \cup {Raw(t) : t \in AuthTrees} :
          srv = NewResource(ConnectorSpec(Raw(c), a, FALSE, "nil", "auto"), NilSchemaConfig, "")
    /\ obj = srv
    /\ rec = [fivetranClientNil |-> FALSE, vaultClient |-> TRUE]
    /\ pc = "ResolveSecrets"
    /\ loc = SecretsLocInit
    /\ remote = [conns |-> <<>>, created |-> 0]
    /\ log = <<>>
    /\ outcome = Outcome(NoRequeue, FALSE, "running")
    /\ \E store \in [SecretPaths -> StoreAnswers] : env = [store |-> store]

\* resolveSecrets: after the document loc.doc, the next one or the return.
NextDocument(l) ==
    IF l.doc = "config"
    THEN [pc |-> "ResolveSecrets", loc |-> [l EXCEPT !.doc = "auth", !.todo = <<>>, !.cache = {}]]
    ELSE [pc |-> "return", loc |-> [l EXCEPT !.todo = <<>>, !.cache = {}]]

\* The document of the spec resolveSecrets is at.
Declared(o, doc) == IF doc = "config" THEN o.spec.connector.config ELSE o.spec.connector.auth

\* resolveSecrets: DeepCopy of the document and the call of ResolveSecrets,
\* up to the start of the walk (a nil document is passed over).
ResolveSecretsCall ==
    /\ pc = "ResolveSecrets"
    /\ UNCHANGED <<srv, obj, rec, remote, log, outcome, env>>
    /\ IF ~Declared(obj, loc.doc).present
       THEN /\ pc' = NextDocument(loc).pc
            /\ loc' = NextDocument(loc).loc
       ELSE /\ pc' = "resolveValue"
            /\ \E w \in Walks(Declared(obj, loc.doc).raw) :
                  loc' = [loc EXCEPT !.todo = w, !.cache = {},
                                     !.configCopy = IF loc.doc = "config"
                                                    THEN Declared(obj, "config") ELSE @,
                                     !.authCopy = IF loc.doc = "auth"
                                                  THEN Declared(obj, "auth") ELSE @]

\* resolveString on the next string value of the walk; the first failure
\* ends the call, and resolveSecrets keeps its error.
resolveValue ==
    /\ pc = "resolveValue"
    /\ loc.todo # <<>>
    /\ UNCHANGED <<srv, obj, rec, remote, outcome, env>>
    /\ LET value == Head(loc.todo)
           p == parseVaultReference(value)
           answer == IF p.path \in SecretPaths THEN env.store[p.path] ELSE "data"
           r == resolveString(value, answer, CacheHit(loc.cache, p.path))
       IN /\ log' = IF r.fetched
                    THEN Append(log, Call("KVv2.Get", p.path, loc.doc, answer, getPathData(answer).ok))
                    ELSE log
          /\ IF r.ok
             THEN /\ pc' = pc
                  /\ loc' = [loc EXCEPT !.todo = Tail(@),
                                        !.cache = IF r.fetched THEN @ \cup {p.path} ELSE @]
             ELSE /\ pc' = NextDocument(loc).pc
                  /\ loc' = [NextDocument(loc).loc EXCEPT
                                !.allErrors = Append(@, [doc |-> loc.doc, err |-> r.err])]

\* ResolveSecrets: every value resolved; rawConfig.Raw = updatedConfig, and
\* resolveSecrets keeps the copy as the resolved document.
marshalResolved ==
    /\ pc = "resolveValue"
    /\ loc.todo = <<>>
    /\ UNCHANGED <<srv, obj, rec, remote, log, outcome, env>>
    /\ LET resolved == Raw(MarshalResolved(Declared(obj, loc.doc).raw))
           l == IF loc.doc = "config"
                THEN [loc EXCEPT !.configCopy = resolved, !.resolvedConfig = resolved]
                ELSE [loc EXCEPT !.authCopy = resolved, !.resolvedAuth = resolved]
       IN /\ pc' = NextDocument(l).pc
          /\ loc' = NextDocument(l).loc

\* A resolveSecrets that returns the documents it resolved together with the
\* error.
resolveSecretsReturn_partial ==
    /\ pc = "return"
    /\ UNCHANGED <<srv, obj, rec, remote, log, outcome, env>>
    /\ loc' = [loc EXCEPT !.out = [config |-> loc.resolvedConfig, auth |-> loc.resolvedAuth,
                                   err |-> loc.allErrors # <<>>]]
    /\ pc' = IF loc.allErrors # <<>> THEN "handleError" ELSE "reconcileConnector"

\* resolveSecrets: nil, nil and the joined errors if there is any error, else
\* the resolved documents; Reconcile goes to handleError on an error.
resolveSecretsReturn ==
    /\ pc = "return"
    /\ UNCHANGED <<srv, obj, rec, remote, log, outcome, env>>
    /\ loc' = [loc EXCEPT !.out =
                  IF loc.allErrors # <<>>
                  THEN [config |-> NilRaw, auth |-> NilRaw, err |-> TRUE]
                  ELSE [config |-> loc.resolvedConfig, auth |-> loc.resolvedAuth,
                        err |-> FALSE]]
    /\ pc' = IF loc.allErrors # <<>> THEN "handleError" ELSE "reconcileConnector"

\* Reconcile: reconcileConnector with the resolved documents (a provider call).
reconcileConnectorCall ==
    /\ pc = "reconcileConnector"
    /\ UNCHANGED <<srv, obj, rec, loc, remote, outcome, env>>
    /\ Logged(ProviderCall("UpdateConnection", "a", "", 200))
    /\ pc' = "done"

NextSecrets ==
    \/ ResolveSecretsCall
    \/ resolveValue
    \/ marshalResolved
    \/ resolveSecretsReturn
    \/ reconcileConnectorCall

SpecSecrets == InitSecrets /\ [][NextSecrets]_vars

----
\* Properties of the secret resolution.

\* The paths the well-formed references of a tree name.
RefPaths(node) ==
    LET w == CHOOSE v \in Walks(node) : TRUE
    IN {parseVaultReference(w[i]).path :
           i \in {j \in 1..Len(w) : HasVaultPrefix(w[j]) /\ parseVaultReference(w[j]).ok}}

\* The number of references of a tree to a path.
RefCount(node, path) ==
    LET w == CHOOSE v \in Walks(node) : TRUE
    IN Cardinality({j \in 1..Len(w) : /\ HasVaultPrefix(w[j])
                                       /\ parseVaultReference(w[j]).ok
                                       /\ parseVaultReference(w[j]).path = path})

\* The store fetches of the ResolveSecrets call on a document for a path.
Fetches(doc, path) ==
    Len(SelectSeq(log, LAMBDA c : c.op = "KVv2.Get" /\ c.a = doc /\ c.id = path))

\* The ResolveSecrets call on the document has returned.
Returned(doc) ==
    /\ Declared(obj, doc).present
    /\ \/ pc \in {"return", "handleError", "reconcileConnector", "done"}
       \/ doc = "config" /\ loc.doc = "auth"

\* The ResolveSecrets call on the document has returned an error.
FailedOn(doc) ==
    Returned(doc) /\ \E i \in 1..Len(loc.allErrors) : loc.allErrors[i].doc = doc

\* C15 as stated: when a ResolveSecrets call has returned, every path its
\* document refers to was fetched exactly once in the call.
C15_AsStated ==
    \A doc \in {"config", "auth"} :
        Returned(doc) =>
            \A path \in RefPaths(Declared(obj, doc).raw) : Fetches(doc, path) = 1

\* C15 amended: a ResolveSecrets call fetches no path more than once, and
\* only paths its document refers to; a call that has returned without error
\* has fetched every path its document refers to exactly once; a call that
\* has returned an error has fetched each such path once or not at all.
C15_OneFetchPerPath ==
    \A doc \in {"config", "auth"} :
        /\ \A path \in SecretPaths :
              /\ Fetches(doc, path) <= 1
              /\ Fetches(doc, path) = 1 => path \in RefPaths(Declared(obj, doc).raw)
        /\ (Returned(doc) /\ ~FailedOn(doc)) =>
              \A path \in RefPaths(Declared(obj, doc).raw) : Fetches(doc, path) = 1

\* C15 witness: a call on a document with two references to one path, one
\* of them nested, has returned without error after one fetch of the path.
C15_Witness ==
    /\ Returned("config")
    /\ ~FailedOn("config")
    /\ RefCount(Declared(obj, "config").raw, <<"p">>) = 2
    /\ RefCount(Declared(obj, "config").raw, <<"q">>) = 1
    /\ Fetches("config", <<"p">>) = 1

\* C16: a ResolveSecrets call that returns an error leaves the document it
\* was given as it was and yields no resolved document; when any of the two
\* calls returned an error, resolveSecrets returns neither a resolved config
\* nor a resolved auth, and no provider call is made; the documents of the
\* resource are never changed.
C16_NoPartialResult ==
    /\ obj = srv
    /\ FailedOn("config") =>
          loc.configCopy = Declared(obj, "config") /\ loc.resolvedConfig = NilRaw
    /\ FailedOn("auth") =>
          loc.authCopy = Declared(obj, "auth") /\ loc.resolvedAuth = NilRaw
    /\ ((FailedOn("config") \/ FailedOn("auth")) /\ pc # "return") =>
          /\ pc = "handleError" \/ loc.doc = "auth"
          /\ loc.out.config = NilRaw
          /\ loc.out.auth = NilRaw
          /\ Calls(ProviderOps) = <<>>
    /\ pc \in {"reconcileConnector", "done"} =>
          /\ ~loc.out.err
          /\ loc.out.config = Raw(MarshalResolved(Declared(obj, "config").raw))

\* C16 witness: the config resolved, the auth did not, and resolveSecrets
\* has returned.
C16_Witness ==
    /\ pc = "handleError"
    /\ loc.resolvedConfig # NilRaw
    /\ FailedOn("auth")
    /\ ~FailedOn("config")
    /\ loc.out.err
    /\ loc.out.config = NilRaw

----
\* calculateConnectorHash and calculateSchemaHash on their own: the
\* fingerprints stored for one resource (srv) are compared with those of a
\* resource read later (obj), whose documents may be written differently.
\* md5 is taken to be free of collisions.

FingerprintTrees ==
    { JMap(<<E("a", JStr(<<"1">>)),
             E("n", JMap(<<E("x", JStr(<<"2">>)), E("y", JNum(<<"3">>))>>))>>),
      JMap(<<E("n", JMap(<<E("x", JStr(<<"2">>)), E("y", JNum(<<"3">>))>>)),
             E("a", JStr(<<"1">>))>>),
      JMap(<<E("a", JStr(<<"1">>)),
             E("n", JMap(<<E("y", JNum(<<"3">>)), E("x", JStr(<<"2">>))>>))>>),
      JMap(<<E("a", JStr(<<"9">>)),
             E("n", JMap(<<E("x", JStr(<<"2">>)), E("y", JNum(<<"3">>))>>))>>),
      JMap(<<E("a", JStr(<<"1">>)),
             E("n", JMap(<<E("x", JStr(<<"2">>)), E("y", JNum(<<"4">>))>>))>>) }

\* json.Unmarshal into any: a mapping loses the order of its keys.
RECURSIVE Unmarshal(_)
Unmarshal(node) ==
    CASE node.kind = "map" ->
            [kind |-> "map",
             items |-> [k \in {node.items[i].key : i \in 1..Len(node.items)} |->
                           LET i == CHOOSE j \in 1..Len(node.items) :
                                       /\ node.items[j].key = k
                                       /\ \A h \in (j + 1)..Len(node.items) :
                                             node.items[h].key # k
                           IN Unmarshal(node.items[i].node)]]
      [] node.kind = "slice" ->
            [kind |-> "slice",
             items |-> [i \in 1..Len(node.items) |-> Unmarshal(node.items[i].node)]]
      [] OTHER -> [kind |-> node.kind, items |-> node.value]

\* Two connector specifications that are equal up to the order of the keys
\* of their documents.
SameIgnoringKeyOrder(c, d) ==
    /\ [c EXCEPT !.config = NilRaw, !.auth = NilRaw] = [d EXCEPT !.config = NilRaw, !.auth = NilRaw]
    /\ c.config.present = d.config.present
    /\ c.auth.present = d.auth.present
    /\ Unmarshal(c.config.raw) = Unmarshal(d.config.raw)
    /\ Unmarshal(c.auth.raw) = Unmarshal(d.auth.raw)

InitFingerprint ==
    /\ \E t \in FingerprintTrees, s \in SchemaConfigs \ {NilSchemaConfig} :
          LET o == [NewResource(ConnectorSpec(Raw(t), NilRaw, FALSE, "nil", "auto"), s, "")
                       EXCEPT !.status.connectorID = "a"]
          IN srv = [o EXCEPT !.connHash = calculateConnectorHash(o),
                             !.schemaHash = calculateSchemaHash(o)]
    /\ \E t \in FingerprintTrees, s \in SchemaConfigs \ {NilSchemaConfig} :
          obj = [srv EXCEPT !.spec.connector.config = Raw(t), !.spec.schemas = s]
    /\ rec = [fivetranClientNil |-> FALSE, vaultClient |-> TRUE]
    /\ pc = "hasConnectorHashChanged"
    /\ loc = LocInit
    /\ remote = [conns |-> <<>>, created |-> 0]
    /\ log = <<>>
    /\ outcome = Outcome(NoRequeue, FALSE, "running")
    /\ env = [events |-> 0, invocations |-> 1, faults |-> 0, start |-> srv, prev |-> "none"]

\* determineReconciliationNeeds: hasConnectorHashChanged.
hasConnectorHashChangedCall ==
    /\ pc = "hasConnectorHashChanged"
    /\ loc' = [loc EXCEPT !.reconcileConnector = hasConnectorHashChanged(obj)]
    /\ pc' = "hasSchemaHashChanged"
    /\ UNCHANGED <<srv, obj, rec, remote, log, outcome, env>>

\* determineReconciliationNeeds: hasSchemaHashChanged.
hasSchemaHashChangedCall ==
    /\ pc = "hasSchemaHashChanged"
    /\ loc' = [loc EXCEPT !.reconcileSchema = hasSchemaHashChanged(obj)]
    /\ pc' = "determined"
    /\ UNCHANGED <<srv, obj, rec, remote, log, outcome, env>>

NextFingerprint == hasConnectorHashChangedCall \/ hasSchemaHashChangedCall

SpecFingerprint == InitFingerprint /\ [][NextFingerprint]_vars

\* C17 as stated: the connector fingerprint of the resource read later
\* equals the stored one if and only if the two connector specifications are
\* equal up to the order of the keys of their documents, and the schema
\* fingerprint equals the stored one if and only if the schema configurations
\* are equal.
C17_AsStated ==
    pc = "determined" =>
        /\ ~loc.reconcileConnector <=>
              SameIgnoringKeyOrder(obj.spec.connector, srv.spec.connector)
        /\ calculateSchemaHash(obj) = obj.schemaHash <=> obj.spec.schemas = srv.spec.schemas

----
\* The delete path on its own (Reconcile, handleDeletion, handleError): a
\* resource under deletion that still holds the finalizer.  Its status names
\* a connector or not, and the connector it names exists at the provider or
\* has been removed there by someone else.

InitDeletion ==
    /\ \E c \in ConnectorSpecs, id \in {"", "ext"}, gone \in BOOLEAN :
          /\ srv = [NewResource(c, NilSchemaConfig, "")
                       EXCEPT !.deleting = TRUE, !.finalizer = TRUE, !.idAnn = id,
                              !.connHash = calculateConnectorHash(NewResource(c, NilSchemaConfig, "")),
                              !.status.connectorID = id]
          /\ remote = [conns |-> IF gone THEN <<>>
                                 ELSE [i \in {"ext"} |-> ExistingConnector("s1", "g1", <<"pfx">>)],
                       created |-> 0]
    /\ rec \in [fivetranClientNil : BOOLEAN, vaultClient : BOOLEAN]
    /\ obj = srv
    /\ pc = "idle"
    /\ loc = LocInit
    /\ log = <<>>
    /\ outcome = Outcome(NoRequeue, FALSE, "none")
    /\ env = [events |-> 0, invocations |-> 0, faults |-> 0, start |-> srv, prev |-> "none"]

NextDeletion ==
    \/ Reconcile
    \/ InitializeVaultClient
    \/ DeleteConnection
    \/ RemoveFinalizer
    \/ handleError

SpecDeletion == InitDeletion /\ [][NextDeletion]_vars

\* Every attempt to remove the finalizer comes after a DeleteConnection that
\* the provider accepted for the identity of the status, or the status holds
\* no identity.
FinalizerRemovedAfterDelete ==
    \A i \in 1..Len(log) :
        (log[i].op = "Update" /\ log[i].a = "finalizer" /\ log[i].b = "removed") =>
            \/ env.start.status.connectorID = ""
            \/ SucceededBefore("DeleteConnection", env.start.status.connectorID, i)

\* The invocation stopped on a DeleteConnection the provider refused.
DeleteFailed ==
    /\ Ended("handleError")
    /\ FailedAt # 0
    /\ log[FailedAt].op = "DeleteConnection"
    /\ ~log[FailedAt].ok

\* ConnectorReady is False with the reason of a failed deletion.
DeletionFailureRecorded ==
    /\ HasCondition(srv, conditionTypeConnectorReady, "False")
    /\ ConditionOf(srv, conditionTypeConnectorReady).reason = "DeletionFailed"

\* C21 as stated: on the delete path the finalizer is removed only after the
\* provider confirmed the deletion of the connector named in the status (or
\* when the status names none); when the remote delete fails, the finalizer
\* stays on the resource and the failure is recorded in ConnectorReady = False.
C21_AsStated ==
    /\ FinalizerRemovedAfterDelete
    /\ DeleteFailed => srv.exists /\ srv.finalizer /\ DeletionFailureRecorded

\* C21 amended: on the delete path the finalizer is removed only after the
\* provider confirmed the deletion of the connector named in the status (or
\* when the status names none); when the remote delete fails, the finalizer
\* stays on the resource, and handleError attempts the write of ConnectorReady
\* = False (DeletionFailed): when that write succeeds the failure is recorded
\* and no error is returned, when it fails nothing is recorded and the write's
\* error is returned (and the caller retries).
C21_FinalizerAfterRemoteDelete ==
    /\ FinalizerRemovedAfterDelete
    /\ DeleteFailed =>
          /\ srv.exists
          /\ srv.finalizer
          /\ LastCall.id = "DeletionFailed"
          /\ IF LastCall.ok THEN DeletionFailureRecorded /\ ~outcome.err
             ELSE outcome.err /\ srv.status = env.start.status

\* C21 witness: the provider refused the delete, the finalizer is still
\* there and the failure is in the status.
C21_Witness ==
    /\ DeleteFailed
    /\ LastCall.ok
    /\ srv.finalizer
    /\ DeletionFailureRecorded

----
\* Properties of Reconcile: the order of the deletion branch and the clients.

\* C22 as stated: an invocation that finds the resource under deletion
\* handles the deletion before it initialises the secret-store client, so it
\* never stops on a failed initialisation of that client.
C22_AsStated ==
    (InInvocation /\ env.start.deleting /\ env.start.finalizer) => ~VaultInitFailed

----
\* vault.ResolveSecrets on one scalar value of a document: json.Unmarshal
\* into `any`, resolveValue, json.Marshal.  A string is a sequence of tokens
\* (see parseVaultReference); a number is an integer literal hi * 2^30 + lo.

RefTokens == {VaultPrefix, "#", "a", "k"}

\* The strings of at most MaxTokens tokens.
RefStrings == UNION {[1..n -> RefTokens] : n \in 0..MaxTokens}

Num(hi, lo) == [hi |-> hi, lo |-> lo]

\* The integer literals a document holds: small ones, and the ones around 2^53.
Numbers == {Num(0, 0), Num(0, 5432), Num(2^23 - 1, 2^30 - 1),
            Num(2^23, 0), Num(2^23, 1), Num(2^23, 2), Num(2^23, 3)}

\* The literals true, false and null.
JLit(text) == [kind |-> "literal", value |-> text, items |-> <<>>]

\* The scalar values of a document: strings, numbers, literals.
StringScalars == {JStr(s) : s \in RefStrings}
NumberScalars == {JNum(n) : n \in Numbers}
LiteralScalars == {JLit(t) : t \in {"true", "false", "null"}}

\* json.Unmarshal of a number into `any`: the nearest float64 (53 bits of
\* mantissa, ties to the even mantissa), for literals below 2^54.
Float64(n) ==
    IF n.hi < 2^23 \/ n.lo % 2 = 0 THEN n
    ELSE IF ((n.lo - 1) \div 2) % 2 = 0 THEN Num(n.hi, n.lo - 1)
    ELSE IF n.lo + 1 = 2^30 THEN Num(n.hi + 1, 0)
    ELSE Num(n.hi, n.lo + 1)

\* json.Unmarshal(rawConfig.Raw, &data) on a scalar.
UnmarshalScalar(node) ==
    IF node.kind = "number" THEN JNum(Float64(node.value)) ELSE node

InitReference ==
    /\ srv = NewResource(ConnectorSpec(NilDoc, NilDoc, FALSE, "nil", "auto"), NilSchemaConfig, "")
    /\ obj = srv
    /\ rec = [fivetranClientNil |-> FALSE, vaultClient |-> TRUE]
    /\ pc = "Unmarshal"
    /\ loc = [data |-> JLit("null"), ok |-> TRUE, err |-> PlainErr(""), out |-> JLit("null")]
    /\ remote = [conns |-> <<>>, created |-> 0]
    /\ log = <<>>
    /\ outcome = Outcome(NoRequeue, FALSE, "running")
    /\ \E answer \in StoreAnswers :
          \/ \E v \in StringScalars : env = [value |-> v, answer |-> answer]
          \/ \E v \in NumberScalars : env = [value |-> v, answer |-> answer]
          \/ \E v \in LiteralScalars : env = [value |-> v, answer |-> answer]

\* ResolveSecrets: json.Unmarshal of the document.
unmarshalDocument ==
    /\ pc = "Unmarshal"
    /\ loc' = [loc EXCEPT !.data = UnmarshalScalar(env.value)]
    /\ pc' = "resolveValue"
    /\ UNCHANGED <<srv, obj, rec, remote, log, outcome, env>>

\* resolveValue on the scalar: resolveString for a string, the value itself
\* for anything else.
resolveScalar ==
    /\ pc = "resolveValue"
    /\ UNCHANGED <<srv, obj, rec, remote, outcome, env>>
    /\ IF loc.data.kind # "string"
       THEN /\ loc' = [loc EXCEPT !.out = loc.data]
            /\ log' = log
            /\ pc' = "Marshal"
       ELSE LET r == resolveString(loc.data.value, env.answer, FALSE)
                p == parseVaultReference(loc.data.value)
            IN /\ log' = IF r.fetched
                         THEN Append(log, Call("KVv2.Get", p.path, p.key, env.answer,
                                               getPathData(env.answer).ok))
                         ELSE log
               /\ loc' = [loc EXCEPT !.ok = r.ok, !.err = r.err,
                                     !.out = IF r.ok THEN JStr(SecretValue(loc.data.value))
                                             ELSE @]
               /\ pc' = IF r.ok THEN "Marshal" ELSE "failed"

\* ResolveSecrets: json.Marshal of the resolved data into rawConfig.Raw (a
\* float64 is written with the digits that read back as the same float64).
marshalDocument ==
    /\ pc = "Marshal"
    /\ pc' = "done"
    /\ UNCHANGED <<srv, obj, rec, loc, remote, log, outcome, env>>

NextReference == unmarshalDocument \/ resolveScalar \/ marshalDocument

SpecReference == InitReference /\ [][NextReference]_vars

\* The text of a reference after the prefix.
RefText(value) == SubSeq(value, 2, Len(value))

\* The text has the form <path>#<key>: some "#" has a non-empty text
\* without "#" before it and a non-empty text after it.
HasPathAndKey(ref) ==
    \E h \in 2..(Len(ref) - 1) : ref[h] = "#" /\ \A j \in 1..(h - 1) : ref[j] # "#"

\* The path of such a text: what stands before its first "#".
PathOf(ref) ==
    SubSeq(ref, 1, (CHOOSE h \in 1..Len(ref) :
                        ref[h] = "#" /\ \A j \in 1..(h - 1) : ref[j] # "#") - 1)

\* The call on the value has returned.
ResolutionEnded == pc \in {"done", "failed"}

\* C23 as stated: a string that begins with "vault:" is a reference; when
\* it has the form vault:<path>#<key> with non-empty path and key the store
\* is asked for the text before the first "#" as the path, and when it has
\* not the call fails with the invalid-reference error without asking the
\* store; a string without the prefix and a scalar that is no string come
\* out of the call as they went in.
C23_AsStated ==
    ResolutionEnded =>
        IF env.value.kind = "string" /\ HasVaultPrefix(env.value.value)
        THEN IF HasPathAndKey(RefText(env.value.value))
             THEN /\ Len(log) = 1
                  /\ log[1].id = PathOf(RefText(env.value.value))
                  /\ loc.err # NewInvalidReferenceError
             ELSE /\ pc = "failed"
                  /\ loc.err = NewInvalidReferenceError
                  /\ log = <<>>
        ELSE pc = "done" /\ loc.out = env.value

----
\* CompareSchemaWithCR and SchemaMismatch.String on their own: one live
\* schema is compared twice with one declared schema configuration and each
\* report is rendered.  A range over a Go map takes the keys in any order;
\* the order goes into the lists of the report and into its rendering.

\* A table comparison that passes over the tables the source does not have.
compareTablesWithFivetranIn_skipsMissing(fivetranTables, crTables, order) ==
    <<>>

\* A change-handling comparison that is made for an empty declared value too.
HandlingMismatch_unconditional(fivetranSchema, crSchema) ==
    IF fivetranSchema.handling # crSchema.handling
    THEN <<"expected", crSchema.handling, "got", fivetranSchema.handling>>
    ELSE <<>>

\* The orders a range over the schemas (the tables) can take.
SchemaOrders == {<<"sA", "sB">>, <<"sB", "sA">>}
TableOrders == {<<"t1", "t2">>, <<"t2", "t1">>}

\* The keys of a mapping in the order a range comes to them.
KeysIn(m, order) == SelectSeq(order, LAMBDA k : k \in DOMAIN m)

RECURSIVE Join(_, _)
Join(parts, sep) ==
    IF parts = <<>> THEN <<>>
    ELSE IF Len(parts) = 1 THEN parts[1]
    ELSE parts[1] \o sep \o Join(Tail(parts), sep)

\* fmt.Sprintf("enabled state mismatch: expected %v, got %v", ...) when the
\* live flag is set and differs, else nothing.
EnabledMismatch(liveEnabled, crEnabled) ==
    IF liveEnabled # "nil" /\ liveEnabled # BoolText(crEnabled)
    THEN << <<"enabled state mismatch: expected", BoolText(crEnabled), "got", liveEnabled>> >>
    ELSE <<>>

\* compareTablesWithFivetran: the sync mode issue of a table.
SyncModeMismatch(liveSyncMode, crSyncMode) ==
    IF crSyncMode = "" THEN <<>>
    ELSE IF liveSyncMode = "nil"
    THEN << <<"sync mode mismatch: expected", crSyncMode, "got", "nil">> >>
    ELSE IF liveSyncMode # crSyncMode
    THEN << <<"sync mode mismatch: expected", crSyncMode, "got", liveSyncMode>> >>
    ELSE <<>>

\* compareTablesWithFivetran, with the order its range takes: the list of
\* table mismatches.
compareTablesWithFivetranIn(fivetranTables, crTables, order) ==
    LET names == KeysIn(crTables, order)
        tableIssues(t) ==
            EnabledMismatch(fivetranTables[t].enabled, crTables[t].enabled)
            \o SyncModeMismatch(fivetranTables[t].syncMode, crTables[t].syncMode)
        entry(t) ==
            IF t \notin DOMAIN fivetranTables
            THEN << <<"table", t, "not found in source">> >>
            ELSE IF tableIssues(t) # <<>>
            THEN << <<"table", t, ":">> \o Join(tableIssues(t), <<",">>) >>
            ELSE <<>>
    IN Join([i \in 1..Len(names) |-> entry(names[i])], <<>>)

\* CompareSchemaWithCR: the change-handling reason, <<>> for nil.
HandlingMismatch(fivetranSchema, crSchema) ==
    IF crSchema.handling # "" /\ fivetranSchema.handling # crSchema.handling
    THEN <<"expected", crSchema.handling, "got", fivetranSchema.handling>>
    ELSE <<>>

\* The SchemaMismatch a comparison starts with.
NoMismatch ==
    [HasMismatch |-> FALSE, SchemaChangeHandling |-> <<>>, MissingSchemas |-> <<>>,
     SchemaMismatches |-> <<>>, TableMismatches |-> <<>>]

\* CompareSchemaWithCR, with the orders its ranges take: [matches, mismatch].
CompareSchemaWithCRIn(fivetranSchema, crSchema, schemaOrder, tableOrder) ==
    LET names == KeysIn(crSchema.schemas, schemaOrder)
        found == {n \in DOMAIN crSchema.schemas : n \in DOMAIN fivetranSchema.schemas}
        tables(n) == compareTablesWithFivetranIn(fivetranSchema.schemas[n].tables,
                                                 crSchema.schemas[n].tables, tableOrder[n])
        reason(n) == EnabledMismatch(fivetranSchema.schemas[n].enabled,
                                     crSchema.schemas[n].enabled)
        sm == [SchemaChangeHandling |-> HandlingMismatch(fivetranSchema, crSchema),
               MissingSchemas |->
                   SelectSeq(names, LAMBDA n : n \notin DOMAIN fivetranSchema.schemas),
               SchemaMismatches |-> [n \in {m \in found : reason(m) # <<>>} |-> reason(n)[1]],
               TableMismatches |-> [n \in {m \in found : tables(m) # <<>>} |-> tables(n)]]
        has == \/ sm.SchemaChangeHandling # <<>>
               \/ sm.MissingSchemas # <<>>
               \/ DOMAIN sm.SchemaMismatches # {}
               \/ DOMAIN sm.TableMismatches # {}
    IN IF ~crSchema.present THEN [matches |-> TRUE, mismatch |-> NoMismatch]
       ELSE [matches |-> ~has,
             mismatch |-> [HasMismatch |-> has,
                           SchemaChangeHandling |-> sm.SchemaChangeHandling,
                           MissingSchemas |-> sm.MissingSchemas,
                           SchemaMismatches |-> sm.SchemaMismatches,
                           TableMismatches |-> sm.TableMismatches]]

\* SchemaMismatch.String, with the orders its two ranges take: the parts
\* joined with "; ".
String(sm, reasonOrder, tableOrder) ==
    LET reasons == KeysIn(sm.SchemaMismatches, reasonOrder)
        tables == KeysIn(sm.TableMismatches, tableOrder)
        parts ==
            (IF sm.SchemaChangeHandling # <<>>
             THEN << <<"Schema Change Handling:">> \o sm.SchemaChangeHandling >> ELSE <<>>)
            \o (IF sm.MissingSchemas # <<>>
                THEN << <<"Missing Schemas:">>
                        \o Join([i \in 1..Len(sm.MissingSchemas) |-> <<sm.MissingSchemas[i]>>],
                                <<",">>) >>
                ELSE <<>>)
            \o [i \in 1..Len(reasons) |->
                    <<"Schema", reasons[i], ":">> \o sm.SchemaMismatches[reasons[i]]]
            \o [i \in 1..Len(tables) |->
                    <<"Schema", tables[i], "tables:">>
                    \o Join(sm.TableMismatches[tables[i]], <<",">>)]
    IN IF ~sm.HasMismatch THEN <<"No schema mismatches found">>
       ELSE Join(parts, <<";">>)

\* The live schemas of the comparison: sA with up to two tables, sB with up
\* to one; flags and sync modes set or nil.
LiveTablesA ==
    UNION {{f \in [S -> [enabled : {"nil", "true", "false"},
                         syncMode : {"nil", "SOFT_DELETE", "HISTORY"}]] :
               "t2" \in S => f["t2"] = [enabled |-> "false", syncMode |-> "nil"]}
           : S \in SUBSET {"t1", "t2"}}

LiveTablesB ==
    {<<>>, [t1 |-> [enabled |-> "true", syncMode |-> "HISTORY"]]}

ComparedLiveSchemas ==
    UNION {{[handling |-> h, schemas |-> f] :
               h \in {"BLOCK_ALL", "ALLOW_ALL"},
               f \in {g \in [S -> [enabled : {"nil", "true", "false"},
                                   tables : LiveTablesA \cup LiveTablesB]] :
                         /\ "sA" \in S => g["sA"].tables \in LiveTablesA
                         /\ "sB" \in S => g["sB"].tables \in LiveTablesB
                                          /\ g["sB"].enabled # "true"}}
           : S \in SUBSET {"sA", "sB"}}

\* The declared schema configurations of the comparison.
DeclaredTablesA ==
    {<<>>,
     [t1 |-> [enabled |-> TRUE, syncMode |-> "SOFT_DELETE"]],
     [t1 |-> [enabled |-> TRUE, syncMode |-> ""],
      t2 |-> [enabled |-> TRUE, syncMode |-> "SOFT_DELETE"]]}

ComparedSchemaConfigs ==
    {NilSchemaConfig}
    \cup UNION {{[present |-> TRUE, handling |-> h, schemas |-> f] :
                    h \in {"", "BLOCK_ALL"},
                    f \in {g \in [S -> [enabled : {TRUE},
                                        tables : DeclaredTablesA
                                                 \cup {[t1 |-> [enabled |-> FALSE,
                                                                syncMode |-> ""]]}]] :
                              /\ "sA" \in S => g["sA"].tables \in DeclaredTablesA
                              /\ "sB" \in S => g["sB"].tables \notin DeclaredTablesA}}
                : S \in SUBSET {"sA", "sB"}}

InitCompare ==
    /\ srv = NewResource(ConnectorSpec(NilDoc, NilDoc, FALSE, "nil", "auto"), NilSchemaConfig, "")
    /\ obj = srv
    /\ rec = [fivetranClientNil |-> FALSE, vaultClient |-> TRUE]
    /\ pc = "CompareSchemaWithCR"
    /\ loc = [results |-> <<>>, texts |-> <<>>]
    /\ remote = [conns |-> <<>>, created |-> 0]
    /\ log = <<>>
    /\ outcome = Outcome(NoRequeue, FALSE, "running")
    /\ \E live \in ComparedLiveSchemas, cr \in ComparedSchemaConfigs :
          env = [live |-> live, cr |-> cr]

\* reconcileSchema: fivetran.CompareSchemaWithCR(schemaDetails, ConnectorSchemas).
CompareSchemaWithCRCall ==
    /\ pc = "CompareSchemaWithCR"
    /\ \E schemaOrder \in SchemaOrders, tableOrder \in [{"sA", "sB"} -> TableOrders] :
          loc' = [loc EXCEPT !.results =
                     Append(@, CompareSchemaWithCRIn(env.live, env.cr, schemaOrder, tableOrder))]
    /\ pc' = "String"
    /\ UNCHANGED <<srv, obj, rec, remote, log, outcome, env>>

\* reconcileSchema: mismatchDetails.String().
StringCall ==
    /\ pc = "String"
    /\ \E reasonOrder \in SchemaOrders, tableOrder \in SchemaOrders :
          loc' = [loc EXCEPT !.texts =
                     Append(@, String(loc.results[Len(loc.results)].mismatch,
                                      reasonOrder, tableOrder))]
    /\ pc' = IF Len(loc.texts) = 0 THEN "CompareSchemaWithCR" ELSE "done"
    /\ UNCHANGED <<srv, obj, rec, remote, log, outcome, env>>

NextCompare == CompareSchemaWithCRCall \/ StringCall

SpecCompare == InitCompare /\ [][NextCompare]_vars

\* The elements of a list.
Elements(s) == {s[i] : i \in 1..Len(s)}

\* The declared schemas the live schema has not, and the declared tables a
\* live schema that is there has not.
AbsentSchemas == {n \in DOMAIN env.cr.schemas : n \notin DOMAIN env.live.schemas}
AbsentTables(n) ==
    {t \in DOMAIN env.cr.schemas[n].tables : t \notin DOMAIN env.live.schemas[n].tables}

\* C24: a comparison answers matches = false whenever a declared schema is
\* absent from the live schemas or a declared table is absent from the live
\* tables of a schema that is there; every absent schema is in the report's
\* list of missing schemas, and every absent table is in the table list of
\* its schema as "table <name> not found in source".
C24_MissingIsMismatch ==
    \A i \in 1..Len(loc.results) :
        LET r == loc.results[i]
        IN /\ \A n \in AbsentSchemas :
                 ~r.matches /\ r.mismatch.HasMismatch
                 /\ n \in Elements(r.mismatch.MissingSchemas)
           /\ \A n \in DOMAIN env.cr.schemas \ AbsentSchemas :
                 \A t \in AbsentTables(n) :
                    /\ ~r.matches /\ r.mismatch.HasMismatch
                    /\ n \in DOMAIN r.mismatch.TableMismatches
                    /\ <<"table", t, "not found in source">>
                          \in Elements(r.mismatch.TableMismatches[n])

\* C24 witness: a comparison where one declared schema and one declared
\* table of the other schema are absent, and nothing else differs.
C24_Witness ==
    /\ Len(loc.results) = 2
    /\ AbsentSchemas = {"sB"}
    /\ "sA" \in DOMAIN env.cr.schemas
    /\ AbsentTables("sA") = {"t2"}
    /\ loc.results[1].mismatch.MissingSchemas = <<"sB">>
    /\ loc.results[1].mismatch.TableMismatches
          = [sA |-> << <<"table", "t2", "not found in source">> >>]
    /\ loc.results[1].mismatch.SchemaChangeHandling = <<>>
    /\ ~loc.results[1].matches

\* A list holds the words one after another.
Mentions(s, words) ==
    \E i \in 1..Len(s) :
        i + Len(words) - 1 <= Len(s) /\ SubSeq(s, i, i + Len(words) - 1) = words

\* What a report says of table t of schema n mentions the words.
TableReportMentions(r, n, t, words) ==
    /\ n \in DOMAIN r.mismatch.TableMismatches
    /\ \E e \in Elements(r.mismatch.TableMismatches[n]) :
          SubSeq(e, 1, 2) = <<"table", t>> /\ Mentions(e, words)

\* C25: a comparison takes an enabled flag of a schema or of a table into
\* account only when the live flag is set, and then reports it exactly when
\* it differs; it takes the change handling into account only when the
\* declared value is not empty; it takes the sync mode of a table into
\* account only when the declared sync mode is not empty, and then reports
\* "expected X, got nil" for a live sync mode that is absent and
\* "expected X, got Y" for one that is there and differs.
C25_ComparedOnlyWhenSet ==
    \A i \in 1..Len(loc.results) :
        LET r == loc.results[i]
            cr == env.cr
            live == env.live
        IN cr.present =>
           /\ r.mismatch.SchemaChangeHandling # <<>>
                 <=> (cr.handling # "" /\ live.handling # cr.handling)
           /\ \A n \in DOMAIN cr.schemas \ AbsentSchemas :
                 /\ n \in DOMAIN r.mismatch.SchemaMismatches
                       <=> /\ live.schemas[n].enabled # "nil"
                           /\ live.schemas[n].enabled # BoolText(cr.schemas[n].enabled)
                 /\ \A t \in DOMAIN cr.schemas[n].tables \ AbsentTables(n) :
                       LET d == cr.schemas[n].tables[t]
                           l == live.schemas[n].tables[t]
                       IN /\ TableReportMentions(r, n, t, <<"enabled state mismatch: expected">>)
                                <=> (l.enabled # "nil" /\ l.enabled # BoolText(d.enabled))
                          /\ TableReportMentions(r, n, t, <<"sync mode mismatch: expected">>)
                                <=> (d.syncMode # "" /\ l.syncMode # d.syncMode)
                          /\ (d.syncMode # "" /\ l.syncMode = "nil")
                                => TableReportMentions(r, n, t,
                                       <<"sync mode mismatch: expected", d.syncMode, "got", "nil">>)
                          /\ (d.syncMode # "" /\ l.syncMode \notin {"nil", d.syncMode})
                                => TableReportMentions(r, n, t,
                                       <<"sync mode mismatch: expected", d.syncMode, "got", l.syncMode>>)

\* C25 witness: a comparison with no change handling declared, where the
\* live flags of the schema and of its table are nil and the live sync mode
\* is absent: the only thing reported is the sync mode, "got nil".
C25_Witness ==
    /\ Len(loc.results) = 2
    /\ env.cr.present /\ env.cr.handling = ""
    /\ DOMAIN env.cr.schemas = {"sA"} /\ "sA" \in DOMAIN env.live.schemas
    /\ env.live.schemas["sA"].enabled = "nil"
    /\ env.live.schemas["sA"].tables = [t1 |-> [enabled |-> "nil", syncMode |-> "nil"]]
    /\ env.cr.schemas["sA"].tables = [t1 |-> [enabled |-> TRUE, syncMode |-> "SOFT_DELETE"]]
    /\ ~loc.results[2].matches
    /\ loc.results[2].mismatch.SchemaChangeHandling = <<>>
    /\ loc.results[2].mismatch.MissingSchemas = <<>>
    /\ DOMAIN loc.results[2].mismatch.SchemaMismatches = {}
    /\ loc.results[2].mismatch.TableMismatches
          = [sA |-> << <<"table", "t1", ":", "sync mode mismatch: expected",
                         "SOFT_DELETE", "got", "nil">> >>]

\* C26 as the specification states it: the two renderings of two comparisons
\* of the same live schema with the same declared schema are the same text.
C26_AsStated ==
    pc = "done" => loc.texts[1] = loc.texts[2]

----
\* Reconcile invocations for two resource identities on one reconciler.  The
\* reconciler is one struct for all invocations: its VaultClient field is read
\* at the start of Reconcile and by resolveSecrets, and written by Reconcile
\* after a client was initialised.  A step of an invocation is one access to
\* the struct or one blocking call; the steps of the invocations interleave.
\* A vault client is a number, 0 for nil; log holds the accesses.

Requests == {"ns/a", "ns/b"}

\* The invocation that p is in, 0 when it is in none.
Running(p) == IF pc[p] = "idle" THEN 0 ELSE loc[p].runs

\* An access of invocation p to a field of the reconciler.
Access(p, kind, field, value) ==
    [proc |-> p, run |-> loc[p].runs, kind |-> kind, field |-> field, value |-> value,
     running |-> [q \in Requests |-> Running(q)]]

\* vaultpkg.IsTokenValid(vc, 300)
IsTokenValid(vc) == vc \notin env.expired

InitConcurrent ==
    /\ srv = NewResource(ConnectorSpec(NilDoc, NilDoc, FALSE, "nil", "auto"), NilSchemaConfig, "")
    /\ obj = srv
    /\ \E vc \in {0, 1} : rec = [fivetranClientNil |-> FALSE, vaultClient |-> vc]
    /\ pc = [p \in Requests |-> "idle"]
    /\ loc = [p \in Requests |-> [runs |-> 0, vaultClient |-> 0]]
    /\ remote = [conns |-> <<>>, created |-> 0]
    /\ log = <<>>
    /\ outcome = Outcome(NoRequeue, FALSE, "none")
    /\ env = [expired |-> {}, clients |-> 1]

\* Reconcile up to the vault client: r.Get found the resource, r.FivetranClient
\* is read and is not nil.
ReconcileOf(p) ==
    /\ pc[p] = "idle"
    /\ loc[p].runs < MaxRuns
    /\ loc' = [loc EXCEPT ![p] = [runs |-> @.runs + 1, vaultClient |-> 0]]
    /\ pc' = [pc EXCEPT ![p] = "VaultClient"]
    /\ log' = Append(log, [Access(p, "read", "FivetranClient", 0) EXCEPT
                              !.run = loc[p].runs + 1,
                              !.running = [@ EXCEPT ![p] = loc[p].runs + 1]])
    /\ UNCHANGED <<srv, obj, rec, remote, outcome, env>>

\* Reconcile: r.VaultClient == nil || !IsTokenValid(r.VaultClient, 300).
readVaultClient(p) ==
    /\ pc[p] = "VaultClient"
    /\ log' = Append(log, Access(p, "read", "VaultClient", rec.vaultClient))
    /\ pc' = [pc EXCEPT ![p] = IF rec.vaultClient = 0 \/ ~IsTokenValid(rec.vaultClient)
                               THEN "InitializeVaultClientFromSecret"
                               ELSE "determineReconciliationNeeds"]
    /\ UNCHANGED <<srv, obj, rec, loc, remote, outcome, env>>

\* Reconcile: InitializeVaultClientFromSecret; on an error the invocation
\* ends through handleError.
InitializeVaultClientFromSecret(p) ==
    /\ pc[p] = "InitializeVaultClientFromSecret"
    /\ \/ /\ pc' = [pc EXCEPT ![p] = "idle"]
          /\ UNCHANGED <<loc, env>>
       \/ /\ loc' = [loc EXCEPT ![p].vaultClient = env.clients + 1]
          /\ env' = [env EXCEPT !.clients = @ + 1]
          /\ pc' = [pc EXCEPT ![p] = "r.VaultClient"]
    /\ UNCHANGED <<srv, obj, rec, remote, log, outcome>>

\* Reconcile: r.VaultClient = vaultClient.
writeVaultClient(p) ==
    /\ pc[p] = "r.VaultClient"
    /\ rec' = [rec EXCEPT !.vaultClient = loc[p].vaultClient]
    /\ log' = Append(log, Access(p, "write", "VaultClient", loc[p].vaultClient))
    /\ pc' = [pc EXCEPT ![p] = "determineReconciliationNeeds"]
    /\ UNCHANGED <<srv, obj, loc, remote, outcome, env>>

\* Reconcile: the invocation ends before resolveSecrets (deletion, adoption,
\* nothing to reconcile, an error), or goes on to it.
afterVaultClient(p) ==
    /\ pc[p] = "determineReconciliationNeeds"
    /\ \E next \in {"idle", "resolveSecrets"} : pc' = [pc EXCEPT ![p] = next]
    /\ UNCHANGED <<srv, obj, rec, loc, remote, log, outcome, env>>

\* resolveSecrets: vault.ResolveSecrets(ctx, r.VaultClient, ...) for the
\* config, and once more for the auth of a resource that has one; the rest
\* of the invocation touches no field of the reconciler.
resolveSecretsOf(p) ==
    /\ pc[p] \in {"resolveSecrets", "resolveSecrets.Auth"}
    /\ log' = Append(log, Access(p, "read", "VaultClient", rec.vaultClient))
    /\ \E next \in IF pc[p] = "resolveSecrets" THEN {"idle", "resolveSecrets.Auth"}
                   ELSE {"idle"} :
          pc' = [pc EXCEPT ![p] = next]
    /\ UNCHANGED <<srv, obj, rec, loc, remote, outcome, env>>

\* The token of the client the reconciler holds comes within 300 seconds of
\* its end.
TokenExpires ==
    /\ rec.vaultClient # 0
    /\ IsTokenValid(rec.vaultClient)
    /\ env' = [env EXCEPT !.expired = @ \cup {rec.vaultClient}]
    /\ UNCHANGED <<srv, obj, rec, pc, loc, remote, log, outcome>>

NextConcurrent ==
    \/ \E p \in Requests :
          \/ ReconcileOf(p)
          \/ readVaultClient(p)
          \/ InitializeVaultClientFromSecret(p)
          \/ writeVaultClient(p)
          \/ afterVaultClient(p)
          \/ resolveSecretsOf(p)
    \/ TokenExpires

SpecConcurrent == InitConcurrent /\ [][NextConcurrent]_vars

\* Access j reads what access i wrote: the same field, no write between.
ReadsFrom(i, j) ==
    /\ i < j
    /\ log[i].kind = "write" /\ log[j].kind = "read"
    /\ log[i].field = log[j].field
    /\ \A k \in (i + 1)..(j - 1) : ~(log[k].kind = "write" /\ log[k].field = log[i].field)

\* The invocation of access j was running when access i was made, and is
\* another invocation.
Concurrent(i, j) ==
    /\ log[i].proc # log[j].proc
    /\ log[i].running[log[j].proc] = log[j].run

\* C27 as the specification states it: no invocation reads reconciler state
\* that another invocation wrote while the two were running together.
C27_AsStated ==
    \A i, j \in 1..Len(log) : ~(ReadsFrom(i, j) /\ Concurrent(i, j))

----
\* Properties of the create call and of the follow-up update.

\* Position of the successful CreateConnection of the invocation, 0 if none.
CreatedAt ==
    IF \E i \in 1..Len(log) : log[i].op = "CreateConnection" /\ log[i].ok
    THEN CHOOSE i \in 1..Len(log) : log[i].op = "CreateConnection" /\ log[i].ok
    ELSE 0

\* The connector the last CreateConnection made.
LastCreated == remote.conns[NewID(remote.created - 1)]

\* Entry j of the log is a successful follow-up update of the invocation.
IsFollowUpUpdate(j) ==
    log[j].op = "UpdateConnection" /\ log[j].a = "again" /\ log[j].ok

\* C28: in an invocation that creates the connector, the connector is paused
\* from the create call on, whatever paused value is declared, until an
\* update of the invocation succeeds; and when the invocation completes
\* without an error, an update was issued after the create and after every
\* setup-test and schema call of the invocation, and it left the connector
\* with the declared paused value and with the declared schedule type.
C28_CreatePausedThenUpdated ==
    (InInvocation /\ CreatedAt > 0) =>
       /\ (\A j \in 1..Len(log) : ~(log[j].op = "UpdateConnection" /\ log[j].ok))
             => LastCreated.paused
       /\ Ended("completed") =>
             \E j \in (CreatedAt + 1)..Len(log) :
                /\ IsFollowUpUpdate(j)
                /\ \A k \in (j + 1)..Len(log) : log[k].op \notin SchemaOps \cup {"RunSetupTests"}
                /\ LastCreated.paused = env.start.spec.connector.paused
                /\ env.start.spec.connector.scheduleType # ""
                      => LastCreated.scheduleType = env.start.spec.connector.scheduleType

\* C28 witness: an invocation created the connector for a resource that
\* declares paused = false and schedule type manual, ran the setup tests and
\* completed with the connector not paused and on the manual schedule.
C28_Witness ==
    /\ Ended("completed")
    /\ CreatedAt > 0
    /\ ~env.start.spec.connector.paused
    /\ env.start.spec.connector.scheduleType = "manual"
    /\ \E k \in 1..Len(log) : log[k].op = "RunSetupTests"
    /\ ~LastCreated.paused
    /\ LastCreated.scheduleType = "manual"

\* C28 witness of the create call: the connector was just created for a
\* resource that declares paused = false, and is paused.
C28_CreatedPaused ==
    /\ InInvocation /\ CreatedAt > 0 /\ CreatedAt = Len(log)
    /\ ~env.start.spec.connector.paused
    /\ LastCreated.paused

----
\* handleConnectorFromAnnotation on its own, for configs whose schema
\* attributes are absent, empty, plain, vault references, or no strings.
\* reconcileConnector is called with the resolved config; the validation
\* reads connector.Spec.Connector.Config.Raw.

\* An attribute of the config that is not there, and the values one has.
NoAttr == [kind |-> "absent", value |-> <<>>]
StrAttr(s) == [kind |-> "string", value |-> s]
NumAttr == [kind |-> "number", value |-> <<"7">>]
NullAttr == [kind |-> "null", value |-> <<>>]

\* The configs: the four attributes the validation reads.
AdoptionConfigs ==
    [schema_prefix : {NoAttr, StrAttr(<<>>), StrAttr(<<"pfx">>), NumAttr,
                      StrAttr(<<VaultPrefix, "p", "#", "k">>)},
     schema : {NoAttr, StrAttr(<<>>), StrAttr(<<"s">>)},
     table : {NoAttr, StrAttr(<<"t">>)},
     table_group_name : {NoAttr, StrAttr(<<>>), StrAttr(<<"g">>), NumAttr, NullAttr}]

\* The schema names the remote connector can have.
RealizedSchemas ==
    {<<"pfx">>, <<"secret", "k">>, <<"s">>, <<"s", ".", "t">>, <<"s", ".", "g">>}

\* vault.ResolveSecrets on a config: every reference becomes its secret.
ResolvedConfig(config) ==
    [a \in DOMAIN config |->
        IF config[a].kind = "string" /\ HasVaultPrefix(config[a].value)
        THEN StrAttr(<<"secret">> \o parseVaultReference(config[a].value).key)
        ELSE config[a]]

\* v, ok := connectorConfig[key].(string); ok && v != ""
IsNonEmptyString(attr) == attr.kind = "string" /\ attr.value # <<>>

\* handleConnectorFromAnnotation: expectedSchema for the unmarshalled config;
\* the unchecked tablegroupname.(string) panics on a value that is no string.
expectedSchema(connectorConfig) ==
    IF IsNonEmptyString(connectorConfig.schema_prefix)
    THEN [panic |-> FALSE, name |-> connectorConfig.schema_prefix.value]
    ELSE IF IsNonEmptyString(connectorConfig.schema)
    THEN LET schema == connectorConfig.schema.value
             tablegroupname == connectorConfig.table_group_name
             withTable == IF IsNonEmptyString(connectorConfig.table)
                          THEN schema \o <<".">> \o connectorConfig.table.value
                          ELSE schema
         IN IF tablegroupname.kind # "absent" /\ tablegroupname # StrAttr(<<>>)
            THEN IF tablegroupname.kind = "string"
                 THEN [panic |-> FALSE, name |-> schema \o <<".">> \o tablegroupname.value]
                 ELSE [panic |-> TRUE, name |-> withTable]
            ELSE [panic |-> FALSE, name |-> withTable]
    ELSE [panic |-> FALSE, name |-> <<>>]

InitAdoption ==
    /\ \E config \in AdoptionConfigs \cup {NoAttr}, existing \in ExistingConnectors,
          schema \in RealizedSchemas :
          /\ srv = [spec |-> [connector |-> [service |-> "s1", groupID |-> "g1",
                                             config |-> config]],
                    idAnn |-> "ext", status |-> [connectorID |-> ""]]
          /\ remote = [conns |-> [ext |-> [existing EXCEPT !.schema = schema]], created |-> 0]
          /\ env = [resolvedConfig |-> IF config = NoAttr THEN NoAttr
                                       ELSE ResolvedConfig(config)]
    /\ obj = srv
    /\ rec = [fivetranClientNil |-> FALSE, vaultClient |-> TRUE]
    /\ pc = "handleConnectorFromAnnotation"
    /\ loc = [expectedSchema |-> <<>>, checked |-> FALSE]
    /\ log = <<>>
    /\ outcome = Outcome(NoRequeue, FALSE, "running")

\* handleConnectorFromAnnotation up to setConnectorID: GetConnection and the
\* validations.  outcome.via is the way the call ends.
validateFromAnnotation ==
    /\ pc = "handleConnectorFromAnnotation"
    /\ UNCHANGED <<srv, obj, rec, remote, env>>
    /\ \E a \in {200, 404} :
          LET existing == remote.conns[obj.idAnn]
              config == obj.spec.connector.config
              expected == expectedSchema(config)
              abort(via) == /\ pc' = "idle"
                            /\ outcome' = Outcome(NoRequeue, TRUE, via)
          IN /\ Logged(ProviderCall("GetConnection", obj.idAnn, "", a))
             /\ IF ~Succeeded(a) THEN abort("get failed") /\ loc' = loc
                ELSE IF obj.spec.connector.service # existing.service
                THEN abort("service mismatch") /\ loc' = loc
                ELSE IF obj.spec.connector.groupID # existing.groupID
                THEN abort("group_id mismatch") /\ loc' = loc
                ELSE IF config = NoAttr
                THEN pc' = "setConnectorID" /\ outcome' = outcome /\ loc' = loc
                ELSE IF expected.panic
                THEN abort("panic") /\ loc' = loc
                ELSE /\ loc' = [expectedSchema |-> expected.name, checked |-> TRUE]
                     /\ IF expected.name # <<>> /\ expected.name # existing.schema
                        THEN abort("schema mismatch")
                        ELSE pc' = "setConnectorID" /\ outcome' = outcome

\* handleConnectorFromAnnotation: setConnectorID(annotationConnectorID).
setConnectorIDFromAnnotation ==
    /\ pc = "setConnectorID"
    /\ UNCHANGED <<rec, remote, env, loc>>
    /\ \E ok \in BOOLEAN :
          /\ Logged(Call("Status().Update", obj.idAnn, "connectorID", "", ok))
          /\ obj' = [obj EXCEPT !.status.connectorID = obj.idAnn]
          /\ srv' = IF ok THEN obj' ELSE srv
          /\ pc' = "idle"
          /\ outcome' = Outcome(NoRequeue, ~ok, IF ok THEN "recorded" ELSE "update failed")

NextAdoption == validateFromAnnotation \/ setConnectorIDFromAnnotation

SpecAdoption == InitAdoption /\ [][NextAdoption]_vars

\* The names the precedence of the specification gives for a config: the
\* schema prefix if it is a non-empty string; otherwise the base schema name,
\* with ".table" or ".table_group_name" for the one of the two that is a
\* non-empty string (either, when both are); <<>> when there is no name.
InferredNames(config) ==
    IF config = NoAttr THEN {<<>>}
    ELSE IF IsNonEmptyString(config.schema_prefix) THEN {config.schema_prefix.value}
    ELSE IF IsNonEmptyString(config.schema)
    THEN LET suffixes == {a \in {config.table, config.table_group_name} : IsNonEmptyString(a)}
         IN IF suffixes = {} THEN {config.schema.value}
            ELSE {config.schema.value \o <<".">> \o a.value : a \in suffixes}
    ELSE {<<>>}

\* The remote connector is the one the resource describes, as far as service
\* and group go, and the provider returned it.
FetchedAndSameKind ==
    /\ pc = "idle" /\ log # <<>> /\ log[1].ok
    /\ remote.conns["ext"].service = "s1" /\ remote.conns["ext"].groupID = "g1"

\* C29 as the specification states it: the expected name is inferred from
\* the resolved config; when every name the precedence gives differs from the
\* realized one the adoption aborts and the identity is not recorded; when no
\* name can be inferred the check is skipped; a single name that is inferred
\* and equal to the realized one lets the adoption go on.
C29_AsStated ==
    FetchedAndSameKind =>
       LET names == InferredNames(env.resolvedConfig)
           realized == remote.conns["ext"].schema
       IN /\ loc.checked => loc.expectedSchema \in names
          /\ (<<>> \notin names /\ realized \notin names)
                => outcome.err /\ srv.status.connectorID = ""
          /\ (<<>> \in names \/ names = {realized})
                => outcome.via \in {"recorded", "update failed"}

----
\* Properties of determineReconciliationNeeds for a forced invocation.

\* The invocation found the force-reconcile label or a False condition.
ForcedAtStart == env.start.forceLabel \/ hasFailedConditions(env.start)

ConnectorOps == {"CreateConnection", "UpdateConnection"}

\* C30 as the specification states it: an invocation that starts with the
\* force-reconcile label or with a False condition issues a create or an
\* update, makes schema calls exactly when a schema configuration is
\* declared, and does not return by the no-op path.
C30_AsStated ==
    (InInvocation /\ ForcedAtStart /\ pc = "idle") =>
       /\ Calls(ConnectorOps) # <<>>
       /\ Calls(SchemaOps) # <<>> <=> hasSchemaConfig(env.start)
       /\ outcome.via # "noop"

\* C30: an invocation that starts with the force-reconcile label or with a
\* False condition never returns by the no-op path; it returns without a
\* create or update call only for a deletion, after the adoption pre-step,
\* or through handleError; it makes schema calls only when a schema
\* configuration is declared and after an update or create call; and when
\* it completes it has issued a create or an update, and it has made schema
\* calls exactly when a schema configuration is declared.
C30_ForcedReconcile ==
    (InInvocation /\ ForcedAtStart) =>
       /\ ~(pc = "idle" /\ outcome.via = "noop")
       /\ (pc = "idle" /\ Calls(ConnectorOps) = <<>>)
             => outcome.via \in {"deleted", "adopted", "handleError"}
       /\ Calls(SchemaOps) # <<>>
             => /\ hasSchemaConfig(env.start)
                /\ \E i \in 1..Len(log) : log[i].op \in ConnectorOps /\ log[i].ok
       /\ Ended("completed")
             => /\ Calls(ConnectorOps) # <<>>
                /\ Calls(SchemaOps) # <<>> <=> hasSchemaConfig(env.start)

\* C30 witness: an invocation that found the stored fingerprints equal to
\* the ones of the resource, and the force-reconcile label or a False
\* condition, completed with an update call and with schema calls.
C30_Witness ==
    /\ Ended("completed")
    /\ ForcedAtStart
    /\ ~hasConnectorHashChanged(env.start) /\ ~hasSchemaHashChanged(env.start)
    /\ hasSchemaConfig(env.start)
    /\ Calls({"UpdateConnection"}) # <<>>
    /\ Calls(SchemaOps) # <<>>

----
\* Properties of the calls of one invocation after a call failed.

\* Entry i of the log is a provider call that failed.
FailedProviderCall(i) == log[i].op \in ProviderOps /\ ~log[i].ok

\* Entry i of the log is the first schema fetch of the invocation, answered
\* with the schema-not-found code.
SchemaNotFoundAt(i) ==
    /\ log[i].op = "GetSchemaDetails" /\ log[i].a = SchemaNotFoundError
    /\ \A k \in 1..(i - 1) : log[k].op \notin SchemaOps

\* Entry i of the log is a secret-store call that failed.
FailedStoreCall(i) == log[i].op = "KVv2.Get" /\ ~log[i].ok

----
\* Properties of the first schema fetch of reconcileSchema.

\* Position of the first schema call of the invocation, 0 if there is none.
FirstSchemaCall ==
    IF \E i \in 1..Len(log) : log[i].op \in SchemaOps
    THEN CHOOSE i \in 1..Len(log) :
            log[i].op \in SchemaOps /\ \A k \in 1..(i - 1) : log[k].op \notin SchemaOps
    ELSE 0

\* The schema calls of the invocation after its first one.
AfterFirstSchemaCall ==
    SelectSeq(LogFrom(FirstSchemaCall + 1), LAMBDA c : c.op \in SchemaOps)

\* The exclusion mode the declared change handling asks for.
DeclaredExcludeMode ==
    IF env.start.spec.schemas.handling = "BLOCK_ALL" THEN "EXCLUDE" ELSE "PRESERVE"

\* C32: the first schema call of an invocation is the fetch of the live
\* schema.  When it fails with the schema-not-found code, the invocation
\* goes on to the reload: the next schema call is a reload with exclusion
\* mode EXCLUDE when the declared change handling is BLOCK_ALL and PRESERVE
\* otherwise, and an apply comes only after that reload succeeded.  When it
\* fails with anything else, the invocation goes to handleError with the
\* error of the fetch, and no reload and no apply is issued.
C32_FirstFetchFailure ==
    (InInvocation /\ FirstSchemaCall # 0) =>
       LET first == log[FirstSchemaCall]
           rest == AfterFirstSchemaCall
       IN /\ first.op = "GetSchemaDetails"
          /\ (~first.ok /\ first.a = SchemaNotFoundError) =>
                /\ rest = <<>> => pc = "reloadSchema"
                /\ rest # <<>> =>
                      /\ rest[1].op = "ReloadSchema"
                      /\ rest[1].a = DeclaredExcludeMode
                      /\ Len(rest) > 1 => rest[1].ok /\ rest[2].op = "UpdateSchema"
          /\ (~first.ok /\ first.a # SchemaNotFoundError) =>
                /\ rest = <<>>
                /\ pc \in {"handleError", "idle"}
                /\ pc = "handleError" => loc.err = WrapFivetranError(first.code)
                /\ pc = "idle" => outcome.via = "handleError"

\* C32 witness: the first fetch failed with schema-not-found for a resource
\* that declares BLOCK_ALL, and a reload with EXCLUDE and an apply followed.
C32_Witness ==
    /\ InInvocation /\ FirstSchemaCall # 0
    /\ log[FirstSchemaCall].a = SchemaNotFoundError
    /\ env.start.spec.schemas.handling = "BLOCK_ALL"
    /\ Len(AfterFirstSchemaCall) >= 2
    /\ AfterFirstSchemaCall[1].a = "EXCLUDE"
    /\ AfterFirstSchemaCall[2].op = "UpdateSchema"

\* C32 witness of the other failure: the first fetch failed with another
\* error and the invocation ended with no further schema call.
C32_OtherError ==
    /\ Ended("handleError") /\ FirstSchemaCall # 0
    /\ ~log[FirstSchemaCall].ok /\ log[FirstSchemaCall].a = ""
    /\ AfterFirstSchemaCall = <<>>

\* ---------------------------------------------------------------------------
\* The schema update built from the declared tree (SpecConvert): convertSchema
\* fills a SchemaBuilder and UpdateSchema sends what the builder holds.
\* ---------------------------------------------------------------------------

ColumnOrders == {<<"c1", "c2">>, <<"c2", "c1">>}

\* A map with one entry set.
Put(m, k, v) == [x \in DOMAIN m \cup {k} |-> IF x = k THEN v ELSE m[x]]

\* connections.ConnectionSchemaConfigSchema.Table and
\* connections.ConnectionSchemaConfigTable.Column: store the configuration
\* under the name.
Table(s, name, tableConfig) == [s EXCEPT !.tables = Put(@, name, tableConfig)]
Column(tableConfig, name, columnConfig) ==
    [tableConfig EXCEPT !.columns = Put(@, name, columnConfig)]

\* &connections.ConnectionSchemaConfigTable{}: nothing set.
EmptyTableConfig == [enabled |-> "nil", syncMode |-> "nil", columns |-> <<>>]

NewSchemaBuilder == [schemas |-> <<>>, schemaChangeHandling |-> "", err |-> ""]

WithSchemaChangeHandling(b, handling) ==
    IF b.err # "" THEN b ELSE [b EXCEPT !.schemaChangeHandling = handling]

AddSchema(b, name, enabled) ==
    IF b.err # "" THEN b
    ELSE IF name = "" THEN [b EXCEPT !.err = "schema name cannot be empty"]
    ELSE [b EXCEPT !.schemas =
             Put(@, name, [enabled |-> BoolText(enabled), tables |-> <<>>])]

AddTable(b, schema, table, enabled, syncMode) ==
    IF b.err # "" THEN b
    ELSE IF schema = "" \/ table = ""
         THEN [b EXCEPT !.err = "schema and table names cannot be empty"]
    ELSE IF schema \notin DOMAIN b.schemas THEN [b EXCEPT !.err = "schema not found"]
    ELSE LET tableConfig == [enabled |-> BoolText(enabled),
                             syncMode |-> IF syncMode # "" THEN syncMode ELSE "nil",
                             columns |-> <<>>]
         IN [b EXCEPT !.schemas[schema] = Table(@, table, tableConfig)]

\* The table is stored as a new, empty configuration and the column is then
\* put into that configuration.
AddColumn(b, schema, table, column, enabled, hashed, isPrimaryKey) ==
    IF b.err # "" THEN b
    ELSE IF schema = "" \/ table = "" \/ column = ""
         THEN [b EXCEPT !.err = "schema, table, and column names cannot be empty"]
    ELSE IF schema \notin DOMAIN b.schemas THEN [b EXCEPT !.err = "schema not found"]
    ELSE LET columnConfig == [enabled |-> enabled, hashed |-> hashed,
                              isPrimaryKey |-> isPrimaryKey]
             tableConfig == Column(EmptyTableConfig, column, columnConfig)
         IN [b EXCEPT !.schemas[schema] = Table(@, table, tableConfig)]

Build(b) == IF b.err # "" THEN [schemas |-> <<>>, schemaChangeHandling |-> "", err |-> b.err]
            ELSE b

\* processTableColumns over the columns in the order the range yields them.
RECURSIVE processTableColumns(_, _, _, _, _)
processTableColumns(builder, schemaName, tableName, columns, order) ==
    IF order = <<>> THEN builder
    ELSE LET column == columns[Head(order)]
         IN processTableColumns(
               AddColumn(builder, schemaName, tableName, Head(order),
                         column.enabled, column.hashed, column.isPrimaryKey),
               schemaName, tableName, columns, Tail(order))

\* processSchemaTable over the tables in the order the range yields them.
RECURSIVE processSchemaTable(_, _, _, _, _)
processSchemaTable(builder, schemaName, tables, order, columnOrder) ==
    IF order = <<>> THEN builder
    ELSE LET table == tables[Head(order)]
             added == AddTable(builder, schemaName, Head(order),
                               table.enabled, table.syncMode)
         IN processSchemaTable(
               processTableColumns(added, schemaName, Head(order), table.columns,
                                   KeysIn(table.columns, columnOrder)),
               schemaName, tables, Tail(order), columnOrder)

RECURSIVE convertSchemas(_, _, _, _, _)
convertSchemas(builder, schemas, order, tableOrder, columnOrder) ==
    IF order = <<>> THEN builder
    ELSE LET schema == schemas[Head(order)]
             added == AddSchema(builder, Head(order), schema.enabled)
         IN convertSchemas(
               processSchemaTable(added, Head(order), schema.tables,
                                  KeysIn(schema.tables, tableOrder), columnOrder),
               schemas, Tail(order), tableOrder, columnOrder)

\* convertSchema of a declared configuration that is there (a nil one gives
\* no builder); the declared maps hold no nil entries.
convertSchema(apiSchema, schemaOrder, tableOrder, columnOrder) ==
    LET builder == IF apiSchema.handling # ""
                   THEN WithSchemaChangeHandling(NewSchemaBuilder, apiSchema.handling)
                   ELSE NewSchemaBuilder
    IN convertSchemas(builder, apiSchema.schemas,
                      KeysIn(apiSchema.schemas, schemaOrder), tableOrder, columnOrder)

\* The declared trees of the conversion: schema sA with table t1 (and t2),
\* t1 with up to two columns; schema sB without tables.
ConvertedColumns ==
    UNION {[S -> [enabled : BOOLEAN, hashed : BOOLEAN, isPrimaryKey : BOOLEAN]]
           : S \in {{}, {"c1"}}}
    \cup {[c1 |-> c, c2 |-> [enabled |-> TRUE, hashed |-> h, isPrimaryKey |-> FALSE]] :
             c \in [enabled : BOOLEAN, hashed : {FALSE}, isPrimaryKey : BOOLEAN],
             h \in BOOLEAN}

ConvertedTables ==
    {<<>>}
    \cup {[t1 |-> t] : t \in [enabled : BOOLEAN, syncMode : {"", "HISTORY"},
                              columns : ConvertedColumns]}
    \cup {[t1 |-> t, t2 |-> [enabled |-> TRUE, syncMode |-> "SOFT_DELETE", columns |-> <<>>]] :
             t \in [enabled : {TRUE}, syncMode : {"HISTORY"}, columns : ConvertedColumns]}

ConvertedSchemaConfigs ==
    {[present |-> TRUE, handling |-> h, schemas |-> [sA |-> [enabled |-> e, tables |-> t]]] :
        h \in {"", "BLOCK_ALL"}, e \in BOOLEAN, t \in ConvertedTables}
    \cup {[present |-> TRUE, handling |-> "ALLOW_ALL",
           schemas |-> [sA |-> [enabled |-> TRUE, tables |-> t],
                        sB |-> [enabled |-> FALSE, tables |-> <<>>]]] :
             t \in ConvertedTables}

InitConvert ==
    /\ srv = NewResource(ConnectorSpec(NilDoc, NilDoc, FALSE, "nil", "auto"), NilSchemaConfig, "")
    /\ obj = srv
    /\ rec = [fivetranClientNil |-> FALSE, vaultClient |-> TRUE]
    /\ pc = "convertSchema"
    /\ loc = [schema |-> NewSchemaBuilder, request |-> NewSchemaBuilder]
    /\ remote = [conns |-> <<>>, created |-> 0]
    /\ log = <<>>
    /\ outcome = Outcome(NoRequeue, FALSE, "running")
    /\ \E cr \in ConvertedSchemaConfigs : env = [cr |-> cr]

\* applySchema: schema := r.convertSchema(connector.Spec.ConnectorSchemas).
convertSchemaCall ==
    /\ pc = "convertSchema"
    /\ \E schemaOrder \in SchemaOrders, tableOrder \in TableOrders,
          columnOrder \in ColumnOrders :
          loc' = [loc EXCEPT !.schema =
                     convertSchema(env.cr, schemaOrder, tableOrder, columnOrder)]
    /\ pc' = "UpdateSchema"
    /\ UNCHANGED <<srv, obj, rec, remote, log, outcome, env>>

\* schemaServiceImpl.UpdateSchema: the request carries what Build returns.
UpdateSchemaCall ==
    /\ pc = "UpdateSchema"
    /\ loc' = [loc EXCEPT !.request = Build(loc.schema)]
    /\ pc' = "sent"
    /\ UNCHANGED <<srv, obj, rec, remote, log, outcome, env>>

NextConvert == convertSchemaCall \/ UpdateSchemaCall

SpecConvert == InitConvert /\ [][NextConvert]_vars

\* The request carries a declared table with its flag and sync mode, and a
\* declared column with its three flags.
CarriesTable(sent, table) ==
    /\ sent.enabled = BoolText(table.enabled)
    /\ table.syncMode # "" => sent.syncMode = table.syncMode

CarriesColumns(sent, table) ==
    \A c \in DOMAIN table.columns :
       c \in DOMAIN sent.columns /\ sent.columns[c] = table.columns[c]

CarriesTables(sent, schema, withColumns) ==
    \A t \in DOMAIN schema.tables :
       (withColumns \/ DOMAIN schema.tables[t].columns = {}) =>
          /\ t \in DOMAIN sent.tables
          /\ CarriesTable(sent.tables[t], schema.tables[t])
          /\ CarriesColumns(sent.tables[t], schema.tables[t])

CarriesTree(request, cr, withColumns) ==
    /\ request.err = ""
    /\ request.schemaChangeHandling = cr.handling
    /\ \A n \in DOMAIN cr.schemas :
          /\ n \in DOMAIN request.schemas
          /\ request.schemas[n].enabled = BoolText(cr.schemas[n].enabled)
          /\ CarriesTables(request.schemas[n], cr.schemas[n], withColumns)

\* C33 (as stated): the schema update sent to the provider carries every
\* declared schema with its enabled flag, every declared table with its
\* enabled flag and sync mode, and every declared column with its enabled,
\* hashed and primary-key flags, also for tables that declare columns.
C33_AsStated == pc = "sent" => CarriesTree(loc.request, env.cr, TRUE)

\* The same for the schemas and for the tables that declare no column.
C33_WithoutColumns == pc = "sent" => CarriesTree(loc.request, env.cr, FALSE)

\* A table that declares one column is sent without its flag and sync mode.
C33_TableFlagLost ==
    ~(/\ pc = "sent"
      /\ "t1" \in DOMAIN env.cr.schemas["sA"].tables
      /\ DOMAIN env.cr.schemas["sA"].tables["t1"].columns = {"c1"}
      /\ loc.request.schemas["sA"].tables["t1"].enabled = "nil")

\* ---------------------------------------------------------------------------
\* Creation of the remote connector across invocations.
\* ---------------------------------------------------------------------------

\* C34 (as stated): over any sequence of invocations for the resource, also
\* ones where a write fails after the provider accepted a create, at most
\* one remote connector is created.
C34_AsStated == remote.created <= 1

\* The same as long as nothing but the invocations touches the resource and
\* at most one call fails.
C34_OneFault == (env.events = 0 /\ env.faults <= 1) => remote.created <= 1

\* ---------------------------------------------------------------------------
\* What the no-op path finds.
\* ---------------------------------------------------------------------------

\* What is left when every step for the declared spec completed and nothing
\* but the engine touched the resource since: the remote connector of the
\* status identity carries the declared paused flag and schedule type (the
\* follow-up update), and the three conditions are True (the connector step,
\* the setup tests, the schema step).
StepsCompleted(o) ==
    /\ o.status.connectorID \in DOMAIN remote.conns
    /\ LET r == remote.conns[o.status.connectorID]
           c == o.spec.connector
       IN /\ r.paused = c.paused
          /\ c.scheduleType # "" => r.scheduleType = c.scheduleType
    /\ \A t \in {conditionTypeConnectorReady, conditionTypeSetupTestReady,
                 conditionTypeSchemaReady} : HasCondition(o, t, "True")

\* C35 (as stated): when an invocation takes the no-op path, every step for
\* the declared spec (create or update, setup tests, schema, follow-up
\* update) completed in an earlier invocation, whatever failed part-way in
\* the invocations before.
C35_AsStated == (Ended("noop") /\ env.events = 0) => StepsCompleted(srv)

\* The same when no call has failed.
C35_WithoutFaults ==
    (Ended("noop") /\ env.events = 0 /\ env.faults = 0) => StepsCompleted(srv)

\* A no-op invocation after an invocation that completed.
C35_NoOpAfterCompleted ==
    ~(Ended("noop") /\ env.events = 0 /\ env.faults = 0 /\ env.prev = "completed")

\* ---------------------------------------------------------------------------
\* The connector identity of the schema calls.
\* ---------------------------------------------------------------------------

\* C36 (as stated): every schema call to the provider (fetch, reload, update)
\* carries a connector identity that is not empty, in whatever state the
\* invocation found the resource.
C36_AsStated ==
    \A i \in 1..Len(log) :
       log[i].op \in {"GetSchemaDetails", "ReloadSchema", "UpdateSchema"} => log[i].id # ""

\* The same for the invocations of a resource nothing but the engine touched.
C36_WithoutEvents == env.events = 0 => C36_AsStated

\* ---------------------------------------------------------------------------
\* ConnectorReady and the values the remote connector was last given.
\* ---------------------------------------------------------------------------

\* The remote connector of the status identity holds the declared paused
\* flag and schedule type: the last create or update the provider accepted
\* for it carried them.
CarriesDeclared(o) ==
    /\ o.status.connectorID \in DOMAIN remote.conns
    /\ LET r == remote.conns[o.status.connectorID]
           c == o.spec.connector
       IN /\ r.paused = c.paused
          /\ c.scheduleType # "" => r.scheduleType = c.scheduleType

\* C37 (as stated): at the end of an invocation ConnectorReady True implies
\* that the last connector call the provider accepted carried the declared
\* paused flag and schedule type.
C37_AsStated ==
    (pc = "idle" /\ InInvocation /\ srv.exists
        /\ HasCondition(srv, conditionTypeConnectorReady, "True")) =>
       CarriesDeclared(srv)

\* The same for the invocations that reconciled the connector and ran to
\* their end.
C37_Completed ==
    (Ended("completed") /\ srv.exists
        /\ Calls({"CreateConnection", "UpdateConnection"}) # <<>>
        /\ HasCondition(srv, conditionTypeConnectorReady, "True")) =>
       CarriesDeclared(srv)

\* ---------------------------------------------------------------------------
\* The fingerprint writes against a versioned resource store (SpecStale).
\* The resource carries its resourceVersion; Reconcile reads the resource
\* once (r.Get) and every write sends the in-memory object, so the store
\* refuses a write whose resourceVersion is not the stored one.  The owner
\* may edit the spec at any moment, also while an invocation runs.
\* ---------------------------------------------------------------------------

\* A write that is accepted whatever version it carries.
Stale_never(o) ==
    FALSE

\* The in-memory object is older than the stored one.
Stale(o) == o.resourceVersion # srv.resourceVersion

\* r.Update: the stored object becomes the in-memory one with the stored
\* status; the caller's copy becomes what is stored.
VersionedUpdate(o) ==
    LET stored == [StoredAfterUpdate(o, srv) EXCEPT !.resourceVersion = srv.resourceVersion + 1]
    IN /\ srv' = IF Stale(o) THEN srv ELSE stored
       /\ obj' = IF Stale(o) THEN o ELSE stored

\* r.Status().Update: the stored status becomes the in-memory one; the
\* caller's copy becomes what is stored.
VersionedStatusUpdate(o) ==
    LET stored == [StoredAfterStatusUpdate(o, srv) EXCEPT !.resourceVersion = srv.resourceVersion + 1]
    IN /\ srv' = IF Stale(o) THEN srv ELSE stored
       /\ obj' = IF Stale(o) THEN o ELSE stored

StaleConnectorSpecs ==
    { ConnectorSpec(ConfigGood, NilDoc, FALSE, "false", "manual"),
      ConnectorSpec(ConfigEdited, NilDoc, TRUE, "false", "") }

StaleSchemaConfigs == {NilSchemaConfig, DeclaredSchema}

InitStale ==
    /\ \E c \in StaleConnectorSpecs, s \in StaleSchemaConfigs :
          srv = NewResource(c, s, "") @@ [resourceVersion |-> 1]
    /\ obj = srv
    /\ rec = [fivetranClientNil |-> FALSE, vaultClient |-> TRUE]
    /\ pc = "idle"
    /\ loc = LocInit
    /\ remote = [conns |-> <<>>, created |-> 0]
    /\ log = <<>>
    /\ outcome = Outcome(NoRequeue, FALSE, "none")
    /\ env = [events |-> 0, invocations |-> 0, accepted |-> {}, acceptedSchemas |-> {}]

\* The owner edits the connector spec or the schema configuration.
EditSpec ==
    /\ env.events < MaxEvents
    /\ \/ \E c \in StaleConnectorSpecs \ {srv.spec.connector} :
             srv' = [srv EXCEPT !.spec.connector = c, !.resourceVersion = @ + 1]
       \/ \E s \in StaleSchemaConfigs \ {srv.spec.schemas} :
             srv' = [srv EXCEPT !.spec.schemas = s, !.resourceVersion = @ + 1]
    /\ env' = [env EXCEPT !.events = @ + 1]
    /\ Logged(Call("EditSpec", "", IF pc = "idle" THEN "" ELSE "concurrent", "", TRUE))
    /\ UNCHANGED <<obj, rec, pc, loc, remote, outcome>>

\* Reconcile: r.Get and determineReconciliationNeeds.
ReconcileStale ==
    /\ pc = "idle"
    /\ env.invocations < MaxInvocations
    /\ env' = [env EXCEPT !.invocations = @ + 1]
    /\ obj' = srv
    /\ log' = <<>>
    /\ UNCHANGED <<srv, rec, remote>>
    /\ LET n == determineReconciliationNeeds(srv, FALSE)
           l == [LocInit EXCEPT !.reconcileConnector = n.connector,
                                !.reconcileSchema = n.schema,
                                !.connectorID = srv.status.connectorID]
       IN ContinueFrom(IF ~srv.finalizer THEN Goto("ensureFinalizer", l)
                       ELSE IF ~n.connector /\ ~n.schema THEN Return(NoRequeue, FALSE, "noop")
                       ELSE IF n.connector THEN Goto("reconcileConnector", l)
                       ELSE Goto("applySchema", l),
                       Outcome(NoRequeue, FALSE, "running"))

\* A write of the invocation: where it goes on, or handleError.
WriteStep(at, op, what, o, status, next) ==
    /\ pc = at
    /\ IF status THEN VersionedStatusUpdate(o) ELSE VersionedUpdate(o)
    /\ Logged(Call(op, loc.connectorID, what, IF Stale(o) THEN "conflict" ELSE "", ~Stale(o)))
    /\ Continue(IF Stale(o)
                THEN Fail(loc, conditionTypeConnectorReady, "ReconciliationFailed",
                          PlainErr("update failed"))
                ELSE next)
    /\ UNCHANGED <<rec, remote, env>>

ensureFinalizerStale ==
    WriteStep("ensureFinalizer", "Update", "finalizer", [obj EXCEPT !.finalizer = TRUE], FALSE,
              IF loc.reconcileConnector THEN Goto("reconcileConnector", loc)
              ELSE IF loc.reconcileSchema THEN Goto("applySchema", loc)
              ELSE Return(NoRequeue, FALSE, "noop"))

\* reconcileConnector: the create or the update built from the in-memory
\* spec, as the provider answers it.
reconcileConnectorStale ==
    /\ pc = "reconcileConnector"
    /\ \E a \in {200, 503} :
          LET create == obj.status.connectorID = ""
              id == IF create THEN NewID(remote.created) ELSE obj.status.connectorID
          IN /\ Logged(ProviderCall(IF create THEN "CreateConnection" ELSE "UpdateConnection",
                                    id, "", a))
             /\ remote' = IF create /\ Succeeded(a)
                          THEN [remote EXCEPT !.created = @ + 1] ELSE remote
             /\ env' = IF Succeeded(a)
                       THEN [env EXCEPT !.accepted = @ \cup {obj.spec.connector}] ELSE env
             /\ Continue(IF ~Succeeded(a)
                         THEN Fail(loc, conditionTypeConnectorReady, "ReconciliationFailed",
                                   WrapFivetranError(a))
                         ELSE IF create
                         THEN Goto("setConnectorIDStatus", [loc EXCEPT !.connectorID = id])
                         ELSE Goto("updateConnectorHash", loc))
    /\ UNCHANGED <<srv, obj, rec>>

setConnectorIDStatusStale ==
    WriteStep("setConnectorIDStatus", "Status().Update", "connectorID",
              [obj EXCEPT !.status.connectorID = loc.connectorID], TRUE,
              Goto("setConnectorIDAnnotation", loc))

setConnectorIDAnnotationStale ==
    WriteStep("setConnectorIDAnnotation", "Update", "connector-id",
              [obj EXCEPT !.idAnn = loc.connectorID], FALSE,
              Goto("updateConnectorHash", loc))

updateConnectorHashStale ==
    WriteStep("updateConnectorHash", "Update", "connector-hash",
              [obj EXCEPT !.connHash = calculateConnectorHash(obj)], FALSE,
              Goto("setConnectorReady", loc))

setConnectorReadyStale ==
    WriteStep("setConnectorReady", "Status().Update", conditionTypeConnectorReady,
              SetCondition(obj, conditionTypeConnectorReady, "True", "ReconciledSuccessfully",
                           [text |-> "Connector is ready", detail |-> {}]), TRUE,
              IF loc.reconcileSchema /\ hasSchemaConfig(obj) THEN Goto("applySchema", loc)
              ELSE Goto("updateConnectorAgain", loc))

\* applySchema: the schema update built from the in-memory spec.
applySchemaStale ==
    /\ pc = "applySchema"
    /\ \E a \in {200, 503} :
          /\ Logged(ProviderCall("UpdateSchema", loc.connectorID, "", a))
          /\ env' = IF Succeeded(a)
                    THEN [env EXCEPT !.acceptedSchemas = @ \cup {obj.spec.schemas}] ELSE env
          /\ Continue(IF Succeeded(a) THEN Goto("updateSchemaHash", loc)
                      ELSE Fail(loc, conditionTypeSchemaReady, "ReconciliationFailed",
                                WrapFivetranError(a)))
    /\ UNCHANGED <<srv, obj, rec, remote>>

updateSchemaHashStale ==
    WriteStep("updateSchemaHash", "Update", "schema-hash",
              [obj EXCEPT !.schemaHash = calculateSchemaHash(obj)], FALSE,
              Goto("setSchemaReady", loc))

setSchemaReadyStale ==
    WriteStep("setSchemaReady", "Status().Update", conditionTypeSchemaReady,
              SetCondition(obj, conditionTypeSchemaReady, "True", "ReconciledSuccessfully",
                           [text |-> "Schema is ready", detail |-> {}]), TRUE,
              IF loc.reconcileConnector THEN Goto("updateConnectorAgain", loc)
              ELSE Return(NoRequeue, FALSE, "completed"))

\* Reconcile: the follow-up update, built from the in-memory spec.
updateConnectorAgainStale ==
    /\ pc = "updateConnectorAgain"
    /\ \E a \in {200, 503} :
          /\ Logged(ProviderCall("UpdateConnection", loc.connectorID, "again", a))
          /\ env' = IF Succeeded(a)
                    THEN [env EXCEPT !.accepted = @ \cup {obj.spec.connector}] ELSE env
          /\ Continue(IF Succeeded(a) THEN Return(NoRequeue, FALSE, "completed")
                      ELSE Fail(loc, conditionTypeConnectorReady, "ReconciliationFailed",
                                WrapFivetranError(a)))
    /\ UNCHANGED <<srv, obj, rec, remote>>

\* handleError: the write of the False condition.
handleErrorStale ==
    /\ pc = "handleError"
    /\ VersionedStatusUpdate(SetCondition(obj, loc.condType, "False", loc.reason,
                                          Message(loc.err)))
    /\ Logged(Call("Status().Update", loc.reason, loc.condType,
                   IF Stale(obj) THEN "conflict" ELSE "False", ~Stale(obj)))
    /\ Continue(Return(HandleErrorResult(loc.err),
                       Stale(obj) \/ HandleErrorReturnsErr(loc.err), "handleError"))
    /\ UNCHANGED <<rec, remote, env>>

NextStale ==
    \/ EditSpec
    \/ ReconcileStale
    \/ ensureFinalizerStale
    \/ reconcileConnectorStale
    \/ setConnectorIDStatusStale
    \/ setConnectorIDAnnotationStale
    \/ updateConnectorHashStale
    \/ setConnectorReadyStale
    \/ applySchemaStale
    \/ updateSchemaHashStale
    \/ setSchemaReadyStale
    \/ updateConnectorAgainStale
    \/ handleErrorStale

SpecStale == InitStale /\ [][NextStale]_vars

\* C38: a stored connector fingerprint is the fingerprint of a connector
\* spec the provider accepted a create or update built from, and a stored
\* schema fingerprint is the fingerprint of a schema configuration the
\* provider accepted a schema update built from, also when the spec is
\* edited while the invocation runs: the write of a stale object fails.
C38_FingerprintOfAccepted ==
    /\ srv.connHash # NoHash => \E c \in env.accepted : srv.connHash = <<"md5", c>>
    /\ srv.schemaHash # NoHash => \E s \in env.acceptedSchemas : srv.schemaHash = <<"md5", s>>

\* The spec was edited after an accepted create and before the fingerprint
\* write, and the fingerprint write failed on the conflict.
C38_Witness ==
    /\ \E i, j, k \in 1..Len(log) :
          /\ i < j /\ j < k
          /\ log[i].op = "CreateConnection" /\ log[i].ok
          /\ log[j].op = "EditSpec" /\ log[j].a = "concurrent"
          /\ log[k].op = "Update" /\ log[k].a = "connector-hash" /\ ~log[k].ok
    /\ srv.connHash = NoHash
    /\ srv.spec.connector \notin env.accepted

\* ---------------------------------------------------------------------------
\* What the delete path leaves at the provider.
\* ---------------------------------------------------------------------------

\* The identities the resource held when the invocation began: the one of
\* the status and the one of the backup annotation.
KnownIdentities(o) == {o.status.connectorID, o.idAnn} \ {""}

\* C39 (as stated): when the delete path has removed the finalizer, no remote
\* connector whose identity the resource held, in the status or only in the
\* backup annotation, is left at the provider.
C39_AsStated ==
    Ended("deleted") => KnownIdentities(env.start) \cap DOMAIN remote.conns = {}

\* The same for the identity of the status.
C39_StatusIdentity ==
    Ended("deleted") => env.start.status.connectorID \notin DOMAIN remote.conns

\* The delete path removed the finalizer after the provider deleted the
\* connector of the status.
C39_Deleted ==
    ~(/\ Ended("deleted")
      /\ env.start.status.connectorID # ""
      /\ SucceededBefore("DeleteConnection", env.start.status.connectorID, Len(log)))

\* ---------------------------------------------------------------------------
\* The event filter of the controller: which changes of the resource start
\* an invocation.
\* ---------------------------------------------------------------------------

annotationForceReconcile == "operator.dataverse.redhat.com/force-reconcile"

\* kubeutils.ForceReconcileLabel: the key of the force-reconcile marker.
ForceReconcileLabel == annotationForceReconcile

\* GetLabels: of the labels of the resource the model keeps the
\* force-reconcile one.
GetLabels(o) == IF o.forceLabel THEN {annotationForceReconcile} ELSE {}

\* A label predicate that passes every change of the label.
CustomLabelKeyChangedPredicateUpdate_anyChange(LabelKey, ObjectOld, ObjectNew) ==
    (LabelKey \in GetLabels(ObjectOld)) # (LabelKey \in GetLabels(ObjectNew))

\* CustomLabelKeyChangedPredicate.Update
CustomLabelKeyChangedPredicateUpdate(LabelKey, ObjectOld, ObjectNew) ==
    LET oldExists == LabelKey \in GetLabels(ObjectOld)
        newExists == LabelKey \in GetLabels(ObjectNew)
    IN ~oldExists /\ newExists

\* predicate.GenerationChangedPredicate: the generations differ.  The store
\* raises the generation when the spec changes and when the deletion is
\* requested, and with no other write.
GenerationChanged(ObjectOld, ObjectNew) ==
    \/ ObjectOld.spec # ObjectNew.spec
    \/ ObjectOld.deleting # ObjectNew.deleting

\* SetupWithManager: predicate.Or(GenerationChangedPredicate{}, labelPredicate),
\* on an update event.
EventFilterUpdate(ObjectOld, ObjectNew) ==
    \/ GenerationChanged(ObjectOld, ObjectNew)
    \/ CustomLabelKeyChangedPredicateUpdate(ForceReconcileLabel, ObjectOld, ObjectNew)

\* The step is a change by the owner of the resource, of the kinds given.
OwnerStep(ops) ==
    /\ env'.events = env.events + 1
    /\ log' # <<>>
    /\ log'[Len(log')].op \in ops

\* C40: an update of the resource passes the event filter only if it is a
\* change of the spec, a deletion request or the addition of the
\* force-reconcile label by the owner; no write of the engine (finalizer,
\* backup annotation, fingerprints, removal of the markers, status) passes
\* it; and an invocation that completed or found nothing to do asks for no
\* requeue.
C40_OwnWritesDoNotTrigger ==
    /\ [][(srv.exists /\ srv'.exists /\ srv' # srv /\ EventFilterUpdate(srv, srv')) =>
             OwnerStep({"EditConnector", "EditSchemas", "AddForceLabel", "RequestDelete"})]_vars
    /\ []((Ended("completed") \/ Ended("noop")) => ~Requeued)

\* The engine has removed the force-reconcile label and the adoption
\* annotation and the invocation completed.
C40_Witness ==
    /\ Ended("completed")
    /\ env.start.forceLabel /\ ~srv.forceLabel
    /\ env.start.adoptAnn # "" /\ srv.adoptAnn = ""
    /\ \E i \in 1..Len(log) :
          log[i].op = "Update" /\ log[i].a = "force-reconcile" /\ log[i].ok

====
